---- MODULE Spec2Model ----
(***************************************************************************)
(* Scheduling and interaction-control engine of arok-mini.                 *)
(*                                                                         *)
(* Part 1: SchedulerService (services/scheduler/scheduler.service.ts).     *)
(* Time is a counter of clock ticks (one tick stands for one minute, the   *)
(* default heartbeat interval); a timestamp is the tick at which           *)
(* `new Date()` was evaluated.  An ISO string is kept as the pair          *)
(* <<"iso", t>> so that writing a timestamp and reading it back is a       *)
(* conversion the model performs.                                          *)
(*                                                                         *)
(* The store answers every read (cacheService.get resolves); a set call    *)
(* stays in flight until it lands, and calls in flight land in any order.  *)
(* A set call that fails is a call that never lands.                       *)
(***************************************************************************)
EXTENDS Integers, Sequences, FiniteSets, TLC

\* ---- bounds of the model ------------------------------------------------
MaxTime == 1
MaxJobs == 2
MaxPasses == 3
MaxRuns == 2
MaxClock == 4
MaxCalls == 3
MaxHandlers == 2
MaxRestarts == 1
MaxInitializing == 2

\* ---- inputs --------------------------------------------------------------
\* the jobs a plugin may register: schedules of every minute, every second
\* minute, and an expression cron-parser rejects
JobDefs == { [id |-> "tick", schedule |-> "* * * * *"],
            [id |-> "poll", schedule |-> "*/2 * * * *"],
            [id |-> "sync", schedule |-> "bad"] }
JobIds == { d.id : d \in JobDefs }
\* the ids crypto.randomUUID() hands to activities, and the ids of their jobs
ActivityIds == {"x"}
ActivityJobIds == { "activity:" \o k : k \in ActivityIds }
Modes == {"single-node", "serverless"}
\* what a handler does: resolve, throw an Error, throw a value that is no Error
Outcomes == {"ok", "throwError", "throwOther"}
\* the message of the Error a handler throws
ThrownMessage == "boom"

Null == -1

\* the sizes the program cuts its dedup sets to, and the replies of one run
ProcessedCap == 1000
maxRepliesPerRun == 5

VARIABLES
    now,               \* the clock read by new Date()
    mode,              \* config.mode
    jobs,              \* SchedulerService.jobs, in registration order
    isInitialized,     \* SchedulerService.isInitialized
    listeners,         \* listener sets registered on the event emitter
    heartbeatInterval, \* TRUE while the interval timer is set
    passes,            \* processJobs() invocations, in call order
    writes,            \* cacheService.set calls of the scheduler in flight
    cache,             \* the store: scheduler rows keyed by job id
    lifetime,          \* the process lifetime: 1, and one more after each restart
    nextBeat,          \* when the interval timer calls back next; Null without a timer
    initializing,      \* initialize() calls waiting in `await this.startHeartbeat()`
    timers             \* interval timers set and not cleared

schedVars == <<now, mode, jobs, isInitialized, listeners, heartbeatInterval,
               passes, writes, cache, lifetime, nextBeat, initializing, timers>>

VARIABLES
    cfg,             \* the InteractionConfig in force
    controls,        \* TwitterInteractionControl.controls
    processedItems,  \* TwitterInteractionControl.processedItems, in insertion order
    snapshot,        \* the store row <prefix>interaction_controls
    clock,           \* the clock read by Date.now()
    call,            \* the last call of the engine's caller and what it got back
    muteCalls,       \* the thread ids muteThread has been called with
    inflight         \* the engine's store calls that have not been awaited to their end

engVars == <<cfg, controls, processedItems, snapshot, clock, call, muteCalls>>

VARIABLES
    runs,            \* the runs of executeFindAndReply: where each stands, its locals
    posts,           \* the replies posted by client.sendTweet
    processedTweets  \* TwitterRepliesPlugin.processedTweets, in insertion order

replyVars == <<runs, posts, processedTweets>>

VARIABLES
    threadControls,    \* TwitterInteractions.threadControls
    processedMentions, \* TwitterInteractions.processedTweets, in insertion order
    fetches,           \* fetchMentions() invocations and where each one stands
    pollCache          \* the store: the rows the mention polling writes

pollVars == <<threadControls, processedMentions, fetches, pollCache>>

VARIABLES
    activities,        \* ActivityPlugin.activities
    savedActivities,   \* the store: the row saveState() writes
    executed           \* the executeActivity() calls made so far

actVars == <<activities, savedActivities, executed>>

pluginVars == <<pollVars, actVars>>

otherVars == <<engVars, replyVars, inflight, pluginVars>>

vars == <<schedVars, otherVars>>

\* ---- timestamps ----------------------------------------------------------
toISOString(t) == <<"iso", t>>
ParseDate(s) == s[2]

\* ---- cron-parser contract ------------------------------------------------
\* the one-time schedules: tick 0 is 00:00 of 1 January, so the schedule of a
\* Date at tick 0 or 1 names minute 0 or 1 of that day, which comes once a year
ScheduledTimes == {0, 1}
getOneTimeSchedule(date) == IF date = 1 THEN "1 0 1 1 *" ELSE "0 0 1 1 *"
OneTimeSchedules == { getOneTimeSchedule(t) : t \in ScheduledTimes }
OneTimeMinute(s) == IF s = "1 0 1 1 *" THEN 1 ELSE 0
MinutesOfYear == 365 * 24 * 60

ValidCron(s) == s \in {"* * * * *", "*/2 * * * *"} \cup OneTimeSchedules
Step(s) == IF s = "*/2 * * * *" THEN 2 ELSE 1
IsTrigger(s, t) ==
    /\ ValidCron(s)
    /\ IF s \in OneTimeSchedules THEN t % MinutesOfYear = OneTimeMinute(s)
       ELSE t % Step(s) = 0
\* parseExpression(s, {currentDate: L}).next(): first trigger strictly after L
CronNext(s, L) ==
    IF s \in OneTimeSchedules
    THEN (((L - OneTimeMinute(s)) \div MinutesOfYear) + 1) * MinutesOfYear + OneTimeMinute(s)
    ELSE ((L \div Step(s)) + 1) * Step(s)

\* ---- job results ---------------------------------------------------------
NoResult == [jobId |-> "", status |-> "none", error |-> "", timestamp |-> <<"iso", Null>>]

ErrorMessage(outcome) == IF outcome = "throwError" THEN ThrownMessage ELSE "Unknown error"

JobResultOf(jobId, outcome, t) ==
    IF outcome = "ok"
    THEN [jobId |-> jobId, status |-> "success", error |-> "", timestamp |-> toISOString(t)]
    ELSE [jobId |-> jobId, status |-> "error", error |-> ErrorMessage(outcome),
          timestamp |-> toISOString(t)]

\* a variant of executeJob without the catch block: a throw rejects its promise
ExecuteJobRejects_NoCatch(outcome) == outcome # "ok"

\* executeJob catches whatever the handler throws: its promise never rejects
ExecuteJobRejects(outcome) == FALSE

\* ---- store rows ----------------------------------------------------------
NoRow == [lastRun |-> <<"iso", Null>>, lastResult |-> NoResult, lastError |-> NoResult,
          config |-> "none"]

WriteOf(key, jobId, iso, res) ==
    [key |-> key, jobId |-> jobId, iso |-> iso, res |-> res]

\* handleJobComplete: Promise.all of two set calls, lastRun = new Date() and
\* lastResult = result; the two rows are kept as one write that lands as a whole
HandleJobComplete(res, t) ==
    { WriteOf("complete", res.jobId, toISOString(t), res) }

\* a variant of handleJobError that also stamps lastRun
HandleJobError_StampsLastRun(res, t) ==
    { WriteOf("error", res.jobId, <<"iso", Null>>, res),
      WriteOf("complete", res.jobId, toISOString(t), res) }

\* handleJobError: one set call, lastError = error
HandleJobError(res, t) ==
    { WriteOf("error", res.jobId, <<"iso", Null>>, res) }

\* emit(JOB_COMPLETE | JOB_ERROR): every registered listener runs its handler
EmitJobEvent(res, t) ==
    IF listeners = 0 THEN {}
    ELSE IF res.status = "success" THEN HandleJobComplete(res, t)
    ELSE HandleJobError(res, t)

ApplyWrite(row, w) ==
    IF w.key = "complete"
    THEN [row EXCEPT !.lastRun = w.iso, !.lastResult = w.res]
    ELSE [row EXCEPT !.lastError = w.res]

\* ---- shouldJobRun --------------------------------------------------------
\* a variant that evaluates the cron expression before looking at lastRun
ShouldJobRun_ParseFirst(lastRun, schedule, currentTime) ==
    IF ~ValidCron(schedule) THEN FALSE
    ELSE IF lastRun = <<"iso", Null>> THEN TRUE
    ELSE CronNext(schedule, ParseDate(lastRun)) <= currentTime

\* a variant that compares nextRun < currentTime
ShouldJobRun_Strict(lastRun, schedule, currentTime) ==
    IF lastRun = <<"iso", Null>> THEN TRUE
    ELSE IF ~ValidCron(schedule) THEN FALSE
    ELSE CronNext(schedule, ParseDate(lastRun)) < currentTime

\* lastRun: what cacheService.get returned; an expression parseExpression
\* rejects throws into the catch block
ShouldJobRun(lastRun, schedule, currentTime) ==
    IF lastRun = <<"iso", Null>> THEN TRUE
    ELSE IF ~ValidCron(schedule) THEN FALSE
    ELSE CronNext(schedule, ParseDate(lastRun)) <= currentTime

\* ---- processJobs ---------------------------------------------------------
Idx(p) == 1..Len(passes[p].jobs)

\* a variant of processJobs() that awaits each handler before it starts the next
NewPass_OneAtATime ==
    LET got == [i \in 1..Len(jobs) |-> cache[jobs[i].id].lastRun]
        run == [i \in 1..Len(jobs) |-> ShouldJobRun(got[i], jobs[i].schedule, now)]
    IN [currentTime |-> now,
        jobs |-> jobs,
        lastRun |-> got,
        due |-> run,
        h |-> [i \in 1..Len(jobs) |->
                  IF ~run[i] THEN "skipped"
                  ELSE IF \E j \in 1..(i - 1) : run[j] THEN "queued" ELSE "running"],
        res |-> [i \in 1..Len(jobs) |-> NoResult],
        phase |-> IF \E i \in 1..Len(jobs) : run[i] THEN "running" ELSE "returned"]

\* a variant of processJobs() that runs one entry per job id
NewPass_OncePerId ==
    LET got == [i \in 1..Len(jobs) |-> cache[jobs[i].id].lastRun]
        run == [i \in 1..Len(jobs) |->
                   /\ ShouldJobRun(got[i], jobs[i].schedule, now)
                   /\ ~\E j \in 1..(i - 1) : jobs[j].id = jobs[i].id]
    IN [currentTime |-> now,
        jobs |-> jobs,
        lastRun |-> got,
        due |-> run,
        h |-> [i \in 1..Len(jobs) |-> IF run[i] THEN "running" ELSE "skipped"],
        res |-> [i \in 1..Len(jobs) |-> NoResult],
        phase |-> IF \E i \in 1..Len(jobs) : run[i] THEN "running" ELSE "returned"]

\* the pass processJobs() builds: currentTime, the job list, for each job what
\* its shouldJobRun read and decided, and the handlers of the due jobs started
NewPass ==
    LET got == [i \in 1..Len(jobs) |-> cache[jobs[i].id].lastRun]
        run == [i \in 1..Len(jobs) |-> ShouldJobRun(got[i], jobs[i].schedule, now)]
    IN [currentTime |-> now,
        jobs |-> jobs,
        lastRun |-> got,
        due |-> run,
        h |-> [i \in 1..Len(jobs) |-> IF run[i] THEN "running" ELSE "skipped"],
        res |-> [i \in 1..Len(jobs) |-> NoResult],
        phase |-> IF \E i \in 1..Len(jobs) : run[i] THEN "running" ELSE "returned"]

RECURSIVE DueResults(_, _)
\* the JobResults of the due jobs, in job-list order (Promise.all keeps order)
DueResults(pass, i) ==
    IF i > Len(pass.jobs) THEN <<>>
    ELSE IF pass.due[i] THEN <<pass.res[i]>> \o DueResults(pass, i + 1)
    ELSE DueResults(pass, i + 1)

\* after an executeJob settles: Promise.all rejects with the first rejection,
\* and resolves once every executeJob has resolved
FinishPass(pass, rejected) ==
    IF rejected THEN [pass EXCEPT !.phase = "rejected"]
    ELSE IF pass.phase = "rejected" \/ \E i \in 1..Len(pass.jobs) : pass.h[i] = "running"
         THEN pass
         ELSE [pass EXCEPT !.phase = "returned"]

\* what processJobs() returns as `results`
Results(pass) == DueResults(pass, 1)

RECURSIVE CountDue(_, _)
CountDue(pass, i) ==
    IF i > Len(pass.jobs) THEN 0
    ELSE (IF pass.due[i] THEN 1 ELSE 0) + CountDue(pass, i + 1)

RECURSIVE Runs(_, _)
\* handler invocations so far
Runs(ps, k) == IF k > Len(ps) THEN 0 ELSE CountDue(ps[k], 1) + Runs(ps, k + 1)

\* emit(HEARTBEAT): every registered heartbeat listener calls processJobs()
EmitHeartbeat(n) == passes \o [k \in 1..n |-> NewPass]

(***************************************************************************)
(* Part 2: TwitterInteractionControl, the interaction-control engine       *)
(* (plugins/plugin-twitter/interaction-control.ts).                        *)
(* A text is the sequence of its characters, so that toLowerCase, trim and *)
(* includes are computed.  Date.now() is read from `clock`, whose unit is  *)
(* 24 hours.  Scores and probabilities are kept as integers: a score in    *)
(* millionths, a probability in hundredths.                                *)
(***************************************************************************)

\* ---- texts ----------------------------------------------------------------
Uppercase == <<"A", "B", "C", "D", "E", "F", "G", "H", "I", "J", "K", "L", "M",
               "N", "O", "P", "Q", "R", "S", "T", "U", "V", "W", "X", "Y", "Z">>
Lowercase == <<"a", "b", "c", "d", "e", "f", "g", "h", "i", "j", "k", "l", "m",
               "n", "o", "p", "q", "r", "s", "t", "u", "v", "w", "x", "y", "z">>

LowerChar(c) ==
    IF \E k \in 1..Len(Uppercase) : Uppercase[k] = c
    THEN Lowercase[CHOOSE k \in 1..Len(Uppercase) : Uppercase[k] = c]
    ELSE c

toLowerCase(s) == [k \in 1..Len(s) |-> LowerChar(s[k])]

includes(s, sub) ==
    \E k \in 0..(Len(s) - Len(sub)) : SubSeq(s, k + 1, k + Len(sub)) = sub

RECURSIVE TrimStart(_)
TrimStart(s) == IF s # <<>> /\ Head(s) = " " THEN TrimStart(Tail(s)) ELSE s

RECURSIVE TrimEnd(_)
TrimEnd(s) ==
    IF s # <<>> /\ s[Len(s)] = " " THEN TrimEnd(SubSeq(s, 1, Len(s) - 1)) ELSE s

trim(s) == TrimEnd(TrimStart(s))

\* ---- configuration -------------------------------------------------------
\* config.noResponseKeywords, in the order of the list
noResponseKeywords == <<
    <<"b", "l", "o", "c", "k", "e", "d">>,
    <<"r", "e", "p", "o", "r", "t", "e", "d">>,
    <<"s", "p", "a", "m">>,
    <<"n", "o", "_", "r", "e", "p", "l", "y">>,
    <<"n", "o", "_", "r", "e", "s", "p", "o", "n", "s", "e">>,
    <<"n", "o", " ", "r", "e", "s", "p", "o", "n", "s", "e">>,
    <<"N", "O", " ", "R", "E", "S", "P", "O", "N", "S", "E">>,
    <<"N", "O", "_", "R", "E", "S", "P", "O", "N", "S", "E">>,
    <<"M", "U", "T", "E", "_", "T", "H", "R", "E", "A", "D">>,
    <<"F", "U", "N", "C", "T", "I", "O", "N">>,
    <<"f", "u", "n", "c", "t", "i", "o", "n">>,
    <<"{">>,
    <<"}">>,
    <<"[">>,
    <<"\"", "n", "a", "m", "e", "\"">>,
    <<"t", "r", "y", " ", "a", "g", "a", "i", "n">>,
    <<"B", "T", "C">>,
    <<"b", "t", "c">>,
    <<"b", "i", "t", "c", "o", "i", "n">>,
    <<"s", "u", "c", "c", "e", "s", "s", "f", "u", "l", "l", "y", " ", "p", "o", "s", "t", "e", "d">>,
    <<"t", "w", "e", "e", "t">> >>

\* interactionConfig.noResponseKeywords of the mention-polling revision
mentionKeywords == <<
    <<"s", "t", "o", "p">>,
    <<"q", "u", "i", "e", "t">>,
    <<"s", "h", "u", "t", " ", "u", "p">>,
    <<"n", "o", " ", "m", "o", "r", "e">>,
    <<"s", "i", "l", "e", "n", "c", "e">>,
    <<"e", "n", "o", "u", "g", "h">>,
    <<"b", "l", "o", "c", "k", "e", "d">>,
    <<"r", "e", "p", "o", "r", "t", "e", "d">>,
    <<"s", "p", "a", "m">>,
    <<"b", "o", "t">> >>

\* the engine's InteractionConfig
EngineConfig ==
    [maxThreadDepth |-> 5, threadTimeout |-> 2, minEngagementScore |-> 0,
     noResponseKeywords |-> noResponseKeywords, skipProbability |-> 0]

\* the InteractionConfig of the mention-polling revision, whose gate runs the
\* same checks
MentionConfig ==
    [maxThreadDepth |-> 5, threadTimeout |-> 1, minEngagementScore |-> 600000,
     noResponseKeywords |-> mentionKeywords, skipProbability |-> 20]

Configs == {EngineConfig, MentionConfig}

\* ---- candidates ---------------------------------------------------------
\* a Tweet; "" is an absent id or conversationId, <<>> an absent text, Null an
\* absent counter
Tweet(id, conversationId, text, retweets) ==
    [id |-> id, conversationId |-> conversationId, text |-> text,
     likes |-> Null, retweets |-> retweets, replies |-> Null,
     bookmarkCount |-> Null, views |-> Null]

NoTweet == Tweet("", "", <<>>, Null)

Texts == { <<>>, <<"h", "i">>, <<"S", "p", "a", "m">> }

\* the candidates handed to the gate
EngineTweets ==
    { Tweet(id, c, x, r) : id \in {"", "a"}, c \in {"", "t"}, x \in Texts, r \in {Null, 60} }

\* candidates of the threads "t" and "a" that pass every check of a fresh engine
ThreadTweets == { Tweet("a", c, <<"h", "i">>, 60) : c \in {"", "t"} }

\* the candidates handed to the gate together with a text of the AI
OutputTweets ==
    { Tweet("a", c, x, 60) : c \in {"", "t"}, x \in { <<"h", "i">>, <<"S", "p", "a", "m">> } }

\* a candidate with all five counters
ScoreTweet(likes, retweets, replies, bookmarkCount, views) ==
    [Tweet("a", "t", <<"h", "i">>, retweets) EXCEPT
        !.likes = likes, !.replies = replies, !.bookmarkCount = bookmarkCount,
        !.views = views]

\* a counter is absent, zero or positive
Counters == {Null, 0, 3}

ExampleTweet == ScoreTweet(200, 50, 10, 0, 10000)

\* the candidates whose score is computed
ScoreTweets ==
    { ScoreTweet(l, r, p, b, v) : l \in Counters, r \in Counters, p \in Counters,
                                  b \in Counters, v \in Counters } \cup {ExampleTweet}

\* values of Math.random(), in hundredths
Draws == {10, 50}

ThreadIds == {"t", "a", "b"}

\* the model's texts of the AI, each with what JSON.parse makes of it: "none"
\* when it throws, "value" when it yields a string, a number, a boolean or null,
\* "object" when it yields an object or an array, with its content field when
\* that is a string (<<>> when the field is absent or empty), and "objectOther"
\* when the content field holds a truthy value that is not a string
AiOutput(raw, json, content) == [raw |-> raw, json |-> json, content |-> content]

NoOutput == AiOutput(<<>>, "none", <<>>)

MuteOutput ==
    AiOutput(<<"M", "U", "T", "E", "_", "T", "H", "R", "E", "A", "D">>, "none", <<>>)

PlainOutput == AiOutput(<<"g", "m">>, "none", <<>>)

JsonOutput ==
    AiOutput(<<"{", "\"", "c", "o", "n", "t", "e", "n", "t", "\"", ":", "\"", "g", "m", "\"", "}">>,
             "object", <<"g", "m">>)

AiOutputs == {MuteOutput, PlainOutput, JsonOutput}

\* ---- texts handed to detectControlResponse ------------------------------------
\* texts without quotes, braces or brackets: JSON.parse throws on each of them,
\* padded or not
Cores ==
    { <<>>,
      <<"N", "O", "_", "R", "E", "S", "P", "O", "N", "S", "E">>,
      <<"M", "U", "T", "E", "_", "T", "H", "R", "E", "A", "D">>,
      <<"n", "o", "_", "r", "e", "s", "p", "o", "n", "s", "e">>,
      <<"m", "u", "t", "e", "_", "t", "h", "r", "e", "a", "d">>,
      <<"g", "m">>,
      <<"S", "p", "a", "m", " ", "b", "o", "t">>,
      <<"s", "t", "o", "p", " ", "s", "p", "a", "m">>,
      <<"N", "O", "_", "R", "E", "S", "P", "O", "N", "S", "E", " ", "o", "k">> }

Pads == { <<>>, <<" ">> }

\* a text as it stands
PlainOutputs == { AiOutput(p \o c \o q, "none", <<>>) : p \in Pads, q \in Pads, c \in Cores }

\* the text {"content":"<c>"}, which JSON.parse turns into an object
ObjectOutputs ==
    { AiOutput(<<"{", "\"", "c", "o", "n", "t", "e", "n", "t", "\"", ":", "\"">> \o p \o c \o <<"\"", "}">>,
               "object", p \o c) : p \in Pads, c \in Cores }

\* {"other":"x"}, [1], "NO_RESPONSE" in quotes, 42, null
OtherJsonOutputs ==
    { AiOutput(<<"{", "\"", "o", "t", "h", "e", "r", "\"", ":", "\"", "x", "\"", "}">>, "object", <<>>),
      AiOutput(<<"[", "1", "]">>, "object", <<>>),
      AiOutput(<<"\"", "N", "O", "_", "R", "E", "S", "P", "O", "N", "S", "E", "\"">>, "value", <<>>),
      AiOutput(<<"4", "2">>, "value", <<>>),
      AiOutput(<<"n", "u", "l", "l">>, "value", <<>>) }

\* {"content":5}
NumberContentOutput == AiOutput(<<"{", "\"", "c", "o", "n", "t", "e", "n", "t", "\"", ":", "5", "}">>, "objectOther", <<>>)

DetectOutputs == PlainOutputs \cup ObjectOutputs \cup OtherJsonOutputs \cup {NumberContentOutput}

\* one text of each kind of detection
OutputKinds ==
    { NoOutput, MuteOutput, PlainOutput, JsonOutput, NumberContentOutput,
      AiOutput(<<"N", "O", "_", "R", "E", "S", "P", "O", "N", "S", "E">>, "none", <<>>),
      AiOutput(<<"S", "p", "a", "m", " ", "b", "o", "t">>, "none", <<>>) }

\* ---- results ---------------------------------------------------------------
\* a reason is the sequence of the parts of its template
Reason(s) == <<s>>
NoReason == <<>>

Result(interact, reason, muteReason) ==
    [interact |-> interact, reason |-> reason, muteReason |-> muteReason, threw |-> FALSE]

\* the call throws before it returns or mutes anything
Thrown == [interact |-> FALSE, reason |-> NoReason, muteReason |-> "", threw |-> TRUE]

\* ---- controls --------------------------------------------------------------
NoControl ==
    [present |-> FALSE, isMuted |-> FALSE, muteReason |-> "", depth |-> 0,
     lastInteraction |-> 0]

NoControls == [k \in ThreadIds |-> NoControl]

\* threadId = tweet.conversationId || tweet.id
ThreadIdOf(tweet) == IF tweet.conversationId # "" THEN tweet.conversationId ELSE tweet.id

Has(items, id) == \E k \in 1..Len(items) : items[k] = id

\* Set.add: an id already in the set keeps its place
Add(items, id) == IF Has(items, id) THEN items ELSE Append(items, id)

\* x || 0
OrZero(x) == IF x = Null THEN 0 ELSE x

\* the five counters of a tweet as calculateEngagementScore reads them
Metrics(tweet) ==
    << OrZero(tweet.likes), OrZero(tweet.retweets), OrZero(tweet.replies),
       OrZero(tweet.bookmarkCount), OrZero(tweet.views) >>

\* a variant of calculateEngagementScore that leaves the bookmarks out
calculateEngagementScore_NoBookmarks(tweet) ==
    5000 * OrZero(tweet.likes) + 10000 * OrZero(tweet.retweets)
      + 8000 * OrZero(tweet.replies) + OrZero(tweet.views)

\* calculateEngagementScore, in millionths
calculateEngagementScore(tweet) ==
    5000 * OrZero(tweet.likes) + 10000 * OrZero(tweet.retweets)
      + 8000 * OrZero(tweet.replies) + 3000 * OrZero(tweet.bookmarkCount)
      + OrZero(tweet.views)

\* noResponseKeywords.some(keyword => text?.toLowerCase().includes(keyword.toLowerCase()))
HasNoResponseKeyword(text, conf) ==
    /\ text # <<>>
    /\ \E k \in 1..Len(conf.noResponseKeywords) :
           includes(toLowerCase(text), toLowerCase(conf.noResponseKeywords[k]))

\* HasNoResponseKeyword of the model's texts, computed once per configuration
keywordHit == [conf \in Configs |-> [x \in Texts |-> HasNoResponseKeyword(x, conf)]]

\* a variant of shouldInteract whose depth check lets one more reply through
shouldInteract_DepthOff(tweet, draw) ==
    LET threadId == ThreadIdOf(tweet)
        control == controls[threadId]
    IN IF threadId = "" THEN Result(FALSE, Reason("No thread ID available"), "")
       ELSE IF Has(processedItems, tweet.id) THEN Result(FALSE, Reason("Already processed"), "")
       ELSE IF control.present /\ control.isMuted
       THEN Result(FALSE, <<"Thread muted: ", control.muteReason>>, "")
       ELSE IF control.present /\ control.depth > cfg.maxThreadDepth + 1
       THEN Result(FALSE, Reason("Thread too deep"), "Thread depth exceeded")
       ELSE IF keywordHit[cfg][tweet.text]
       THEN Result(FALSE, Reason("No response keyword detected"), "No response keyword detected")
       ELSE IF calculateEngagementScore(tweet) < cfg.minEngagementScore
       THEN Result(FALSE, Reason("Low engagement score"), "")
       ELSE IF draw < cfg.skipProbability THEN Result(FALSE, Reason("Random skip"), "")
       ELSE Result(TRUE, NoReason, "")

\* a variant of shouldInteract that looks at the mute flag before the dedup set
shouldInteract_MutedFirst(tweet, draw) ==
    LET threadId == ThreadIdOf(tweet)
        control == controls[threadId]
    IN IF threadId = "" THEN Result(FALSE, Reason("No thread ID available"), "")
       ELSE IF control.present /\ control.isMuted
       THEN Result(FALSE, <<"Thread muted: ", control.muteReason>>, "")
       ELSE IF Has(processedItems, tweet.id) THEN Result(FALSE, Reason("Already processed"), "")
       ELSE IF control.present /\ control.depth > cfg.maxThreadDepth
       THEN Result(FALSE, Reason("Thread too deep"), "Thread depth exceeded")
       ELSE IF keywordHit[cfg][tweet.text]
       THEN Result(FALSE, Reason("No response keyword detected"), "No response keyword detected")
       ELSE IF calculateEngagementScore(tweet) < cfg.minEngagementScore
       THEN Result(FALSE, Reason("Low engagement score"), "")
       ELSE IF draw < cfg.skipProbability THEN Result(FALSE, Reason("Random skip"), "")
       ELSE Result(TRUE, NoReason, "")

\* a variant of shouldInteract that also mutes on a low engagement score
shouldInteract_MuteOnLow(tweet, draw) ==
    LET threadId == ThreadIdOf(tweet)
        control == controls[threadId]
    IN IF threadId = "" THEN Result(FALSE, Reason("No thread ID available"), "")
       ELSE IF Has(processedItems, tweet.id) THEN Result(FALSE, Reason("Already processed"), "")
       ELSE IF control.present /\ control.isMuted
       THEN Result(FALSE, <<"Thread muted: ", control.muteReason>>, "")
       ELSE IF control.present /\ control.depth > cfg.maxThreadDepth
       THEN Result(FALSE, Reason("Thread too deep"), "Thread depth exceeded")
       ELSE IF keywordHit[cfg][tweet.text]
       THEN Result(FALSE, Reason("No response keyword detected"), "No response keyword detected")
       ELSE IF calculateEngagementScore(tweet) < cfg.minEngagementScore
       THEN Result(FALSE, Reason("Low engagement score"), "Low engagement score")
       ELSE IF draw < cfg.skipProbability THEN Result(FALSE, Reason("Random skip"), "")
       ELSE Result(TRUE, NoReason, "")

\* shouldInteract: the result, and in muteReason the reason of the muteThread
\* call it makes ("" when it makes none); draw is the value of Math.random()
shouldInteract(tweet, draw) ==
    LET threadId == ThreadIdOf(tweet)
        control == controls[threadId]
    IN IF threadId = "" THEN Result(FALSE, Reason("No thread ID available"), "")
       ELSE IF Has(processedItems, tweet.id) THEN Result(FALSE, Reason("Already processed"), "")
       ELSE IF control.present /\ control.isMuted
       THEN Result(FALSE, <<"Thread muted: ", control.muteReason>>, "")
       ELSE IF control.present /\ control.depth > cfg.maxThreadDepth
       THEN Result(FALSE, Reason("Thread too deep"), "Thread depth exceeded")
       ELSE IF keywordHit[cfg][tweet.text]
       THEN Result(FALSE, Reason("No response keyword detected"), "No response keyword detected")
       ELSE IF calculateEngagementScore(tweet) < cfg.minEngagementScore
       THEN Result(FALSE, Reason("Low engagement score"), "")
       ELSE IF draw < cfg.skipProbability THEN Result(FALSE, Reason("Random skip"), "")
       ELSE Result(TRUE, NoReason, "")

\* ---- detectControlResponse -------------------------------------------------
Detection(shouldPost, controlType, reason) ==
    [shouldPost |-> shouldPost, controlType |-> controlType, reason |-> reason,
     threw |-> FALSE]

NoDetection == Detection(FALSE, "", NoReason)

\* aiOutput.trim is not a function: a TypeError leaves detectControlResponse
DetectionThrows == [NoDetection EXCEPT !.threw = TRUE]

\* the first keyword of the list the text contains, 0 when there is none
FirstKeyword(lowerOutput, conf) ==
    IF \E k \in 1..Len(conf.noResponseKeywords) :
           includes(lowerOutput, toLowerCase(conf.noResponseKeywords[k]))
    THEN CHOOSE k \in 1..Len(conf.noResponseKeywords) :
           /\ includes(lowerOutput, toLowerCase(conf.noResponseKeywords[k]))
           /\ \A m \in 1..(k - 1) :
                  ~includes(lowerOutput, toLowerCase(conf.noResponseKeywords[m]))
    ELSE 0

detectControlResponse(aiOutput, conf) ==
    IF aiOutput.raw = <<>> THEN Detection(FALSE, "", Reason("Empty output"))
    ELSE IF aiOutput.json = "object" /\ aiOutput.content = <<>>
    THEN Detection(FALSE, "", Reason("JSON response missing content field"))
    ELSE IF aiOutput.json = "objectOther" THEN DetectionThrows
    ELSE LET text == IF aiOutput.json = "object" THEN aiOutput.content ELSE aiOutput.raw
             normalizedOutput == trim(text)
             k == FirstKeyword(toLowerCase(normalizedOutput), conf)
         IN IF normalizedOutput = <<"N", "O", "_", "R", "E", "S", "P", "O", "N", "S", "E">>
            THEN Detection(FALSE, "NO_RESPONSE", Reason("Explicit NO_RESPONSE command"))
            ELSE IF normalizedOutput = <<"M", "U", "T", "E", "_", "T", "H", "R", "E", "A", "D">>
            THEN Detection(FALSE, "MUTE_THREAD", Reason("Explicit MUTE_THREAD command"))
            ELSE IF k # 0
            THEN Detection(FALSE, "NO_RESPONSE",
                           <<"Contains no-response keyword: ">> \o conf.noResponseKeywords[k])
            ELSE Detection(TRUE, "", NoReason)

\* detectControlResponse of the model's texts, computed once per configuration
detection ==
    [conf \in Configs |->
        [o \in AiOutputs \cup DetectOutputs \cup OutputKinds |-> detectControlResponse(o, conf)]]

\* a variant of shouldInteractWithAIOutput that runs the base gating first
shouldInteractWithAIOutput_BaseFirst(tweet, aiOutput, draw) ==
    LET controlCheck == detection[cfg][aiOutput]
        base == shouldInteract(tweet, draw)
    IN IF controlCheck.threw THEN Thrown
       ELSE IF ~base.interact THEN base
       ELSE IF ~controlCheck.shouldPost
       THEN IF controlCheck.controlType = "MUTE_THREAD" /\ tweet.conversationId # ""
            THEN Result(FALSE, controlCheck.reason, "Explicit MUTE_THREAD command")
            ELSE Result(FALSE, controlCheck.reason, "")
       ELSE base

\* shouldInteractWithAIOutput: the result, and the reason of the muteThread
\* call it makes
shouldInteractWithAIOutput(tweet, aiOutput, draw) ==
    LET controlCheck == detection[cfg][aiOutput]
    IN IF controlCheck.threw THEN Thrown
       ELSE IF ~controlCheck.shouldPost
       THEN IF controlCheck.controlType = "MUTE_THREAD" /\ tweet.conversationId # ""
            THEN Result(FALSE, controlCheck.reason, "Explicit MUTE_THREAD command")
            ELSE Result(FALSE, controlCheck.reason, "")
       ELSE shouldInteract(tweet, draw)

\* ---- mutations of the control map -------------------------------------------
\* controls.get(threadId) || {isMuted: false, depth: 0, lastInteraction: Date.now()}
GetOrNew(ctl, threadId, t) ==
    IF ctl[threadId].present THEN ctl[threadId]
    ELSE [present |-> TRUE, isMuted |-> FALSE, muteReason |-> "", depth |-> 0,
          lastInteraction |-> t]

\* a variant of muteThread that writes a fresh entry
muteThread_FreshEntry(ctl, threadId, reason, t) ==
    [ctl EXCEPT ![threadId] =
        [present |-> TRUE, isMuted |-> TRUE, muteReason |-> reason, depth |-> 0,
         lastInteraction |-> t]]

\* a variant of processInteraction that also clears the mute
processInteraction_Unmutes(ctl, threadId, t) ==
    [ctl EXCEPT ![threadId] =
        [GetOrNew(ctl, threadId, t) EXCEPT !.depth = @ + 1, !.isMuted = FALSE,
                                           !.muteReason = "", !.lastInteraction = t]]

muteThread(ctl, threadId, reason, t) ==
    [ctl EXCEPT ![threadId] =
        [GetOrNew(ctl, threadId, t) EXCEPT !.isMuted = TRUE, !.muteReason = reason,
                                           !.lastInteraction = t]]

processInteraction(ctl, threadId, t) ==
    [ctl EXCEPT ![threadId] =
        [GetOrNew(ctl, threadId, t) EXCEPT !.depth = @ + 1, !.lastInteraction = t]]

\* a variant of the expiry test that also deletes an entry exactly at the timeout
Expired_AtTimeout(ctl, t) ==
    { k \in ThreadIds : ctl[k].present /\ t - ctl[k].lastInteraction >= cfg.threadTimeout }

\* the entries cleanupControls deletes
Expired(ctl, t) ==
    { k \in ThreadIds : ctl[k].present /\ t - ctl[k].lastInteraction > cfg.threadTimeout }

cleanupControls(ctl, t) == [k \in ThreadIds |-> IF k \in Expired(ctl, t) THEN NoControl ELSE ctl[k]]

\* ---- the persisted snapshot ---------------------------------------------------
NoSnapshot == [present |-> FALSE, controls |-> <<>>, processedItems |-> <<>>]

\* a variant of the trim that keeps the oldest 1000 ids
Trimmed_KeepsOldest(items) ==
    IF Len(items) > ProcessedCap THEN SubSeq(items, 1, ProcessedCap) ELSE items

\* processedArray.splice(0, length - 1000) when it is longer than 1000
Trimmed(items) ==
    IF Len(items) > ProcessedCap
    THEN SubSeq(items, Len(items) - ProcessedCap + 1, Len(items))
    ELSE items

\* the cache entry updateControlCache builds: an object keyed by the thread ids
\* of the map, lastInteraction || Date.now(), and the processed array
Serialize(ctl, items, t) ==
    [present |-> TRUE,
     controls |-> [k \in {x \in ThreadIds : ctl[x].present} |->
                     [isMuted |-> ctl[k].isMuted, muteReason |-> ctl[k].muteReason,
                      depth |-> ctl[k].depth,
                      lastInteraction |-> IF ctl[k].lastInteraction = 0 THEN t
                                          ELSE ctl[k].lastInteraction]],
     processedItems |-> Trimmed(items)]

\* a variant of the hydration that restores every thread as not muted
LoadControls_Unmuted(cached) ==
    [k \in ThreadIds |->
        IF k \in DOMAIN cached.controls
        THEN [present |-> TRUE, isMuted |-> FALSE, muteReason |-> "",
              depth |-> cached.controls[k].depth,
              lastInteraction |-> cached.controls[k].lastInteraction]
        ELSE NoControl]

\* loadFromCache: the map rebuilt from the entries of the cached object
LoadControls(cached) ==
    [k \in ThreadIds |->
        IF k \in DOMAIN cached.controls
        THEN [present |-> TRUE, isMuted |-> cached.controls[k].isMuted,
              muteReason |-> cached.controls[k].muteReason,
              depth |-> cached.controls[k].depth,
              lastInteraction |-> cached.controls[k].lastInteraction]
        ELSE NoControl]

\* a thread that has been replied to maxThreadDepth times, as a previous process
\* lifetime left it in the store
DeepThread ==
    [NoControls EXCEPT !["t"] =
        [present |-> TRUE, isMuted |-> FALSE, muteReason |-> "",
         depth |-> EngineConfig.maxThreadDepth, lastInteraction |-> 1]]

\* the rows the store may hold when the engine is constructed
StoredSnapshots == { NoSnapshot, Serialize(DeepThread, <<>>, 1) }

\* ---- calls --------------------------------------------------------------------
Called(op, threadId, tweet, draw, aiOutput, threw, interact, reason) ==
    [seq |-> call.seq + 1, op |-> op, threadId |-> threadId, tweet |-> tweet, draw |-> draw,
     aiOutput |-> aiOutput, threw |-> threw, interact |-> interact, reason |-> reason,
     cleaned |-> 0, detection |-> NoDetection, score |-> 0]

NoCall ==
    [seq |-> 0, op |-> "none", threadId |-> "", tweet |-> NoTweet, draw |-> 0,
     aiOutput |-> NoOutput, threw |-> FALSE, interact |-> FALSE, reason |-> NoReason,
     cleaned |-> 0, detection |-> NoDetection, score |-> 0]

\* updateControlCache: trims the dedup set, then writes the snapshot; the set
\* call succeeds (ok) or fails, and a failure is thrown on to the caller
UpdateControlCache(ok) ==
    /\ processedItems' = Trimmed(processedItems)
    /\ snapshot' = IF ok THEN Serialize(controls', processedItems, clock) ELSE snapshot

\* ---- actions of the engine, each call awaited by its caller -------------------
Advance ==
    /\ clock < MaxClock
    /\ clock' = clock + 1
    /\ UNCHANGED <<cfg, controls, processedItems, snapshot, call, muteCalls>>
    /\ UNCHANGED <<schedVars, replyVars, inflight, pluginVars>>

MuteThread(threadId, reason, ok) ==
    /\ call.seq < MaxCalls
    /\ controls' = muteThread(controls, threadId, reason, clock)
    /\ UpdateControlCache(ok)
    /\ muteCalls' = muteCalls \cup {threadId}
    /\ call' = Called("muteThread", threadId, NoTweet, 0, NoOutput, ~ok, FALSE, NoReason)
    /\ UNCHANGED <<cfg, clock>>
    /\ UNCHANGED <<schedVars, replyVars, inflight, pluginVars>>

ProcessInteraction(threadId, ok) ==
    /\ call.seq < MaxCalls
    /\ controls' = processInteraction(controls, threadId, clock)
    /\ UpdateControlCache(ok)
    /\ call' = Called("processInteraction", threadId, NoTweet, 0, NoOutput, ~ok, FALSE, NoReason)
    /\ UNCHANGED <<cfg, clock, muteCalls>>
    /\ UNCHANGED <<schedVars, replyVars, inflight, pluginVars>>

MarkProcessed(id) ==
    /\ call.seq < MaxCalls
    /\ processedItems' = Add(processedItems, id)
    /\ call' = Called("markProcessed", "", Tweet(id, "", <<>>, Null), 0, NoOutput, FALSE, FALSE,
                      NoReason)
    /\ UNCHANGED <<cfg, controls, snapshot, clock, muteCalls>>
    /\ UNCHANGED <<schedVars, replyVars, inflight, pluginVars>>

CleanupControls(ok) ==
    /\ call.seq < MaxCalls
    /\ controls' = cleanupControls(controls, clock)
    /\ IF Expired(controls, clock) # {}
       THEN /\ UpdateControlCache(ok)
            /\ call' = [Called("cleanupControls", "", NoTweet, 0, NoOutput, ~ok, FALSE, NoReason)
                           EXCEPT !.cleaned = IF ok THEN Cardinality(Expired(controls, clock))
                                              ELSE 0]
       ELSE /\ ok
            /\ call' = Called("cleanupControls", "", NoTweet, 0, NoOutput, FALSE, FALSE, NoReason)
            /\ UNCHANGED <<processedItems, snapshot>>
    /\ UNCHANGED <<cfg, clock, muteCalls>>
    /\ UNCHANGED <<schedVars, replyVars, inflight, pluginVars>>

\* the effect of a gate call whose result is r
Gate(op, tweet, draw, aiOutput, r, ok) ==
    /\ call.seq < MaxCalls
    /\ IF r.threw
       THEN /\ ok
            /\ call' = Called(op, ThreadIdOf(tweet), tweet, draw, aiOutput, TRUE, FALSE, NoReason)
            /\ UNCHANGED <<controls, processedItems, snapshot, muteCalls>>
       ELSE IF r.muteReason # ""
       THEN /\ controls' = muteThread(controls, ThreadIdOf(tweet), r.muteReason, clock)
            /\ UpdateControlCache(ok)
            /\ muteCalls' = muteCalls \cup {ThreadIdOf(tweet)}
            /\ call' = IF ok
                       THEN Called(op, ThreadIdOf(tweet), tweet, draw, aiOutput, FALSE,
                                   r.interact, r.reason)
                       ELSE Called(op, ThreadIdOf(tweet), tweet, draw, aiOutput, TRUE,
                                   FALSE, NoReason)
       ELSE /\ ok
            /\ call' = Called(op, ThreadIdOf(tweet), tweet, draw, aiOutput, FALSE,
                              r.interact, r.reason)
            /\ UNCHANGED <<controls, processedItems, snapshot, muteCalls>>
    /\ UNCHANGED <<cfg, clock>>
    /\ UNCHANGED <<schedVars, replyVars, inflight, pluginVars>>

ShouldInteract(tweet, draw, ok) ==
    Gate("shouldInteract", tweet, draw, NoOutput, shouldInteract(tweet, draw), ok)

ShouldInteractWithAIOutput(tweet, aiOutput, draw, ok) ==
    Gate("shouldInteractWithAIOutput", tweet, draw, aiOutput,
         shouldInteractWithAIOutput(tweet, aiOutput, draw), ok)

\* detectControlResponse(aiOutput), called on its own
DetectControlResponse(aiOutput) ==
    /\ call.seq < MaxCalls
    /\ LET d == detection[cfg][aiOutput]
       IN call' = [Called("detectControlResponse", "", NoTweet, 0, aiOutput, d.threw, FALSE,
                          NoReason) EXCEPT !.detection = d]
    /\ UNCHANGED <<cfg, controls, processedItems, snapshot, clock, muteCalls>>
    /\ UNCHANGED <<schedVars, replyVars, inflight, pluginVars>>

\* calculateEngagementScore(tweet), as shouldInteract calls it
CalculateEngagementScore(tweet) ==
    /\ call.seq < MaxCalls
    /\ call' = [Called("calculateEngagementScore", "", tweet, 0, NoOutput, FALSE, FALSE,
                        NoReason) EXCEPT !.score = calculateEngagementScore(tweet)]
    /\ UNCHANGED <<cfg, controls, processedItems, snapshot, clock, muteCalls>>
    /\ UNCHANGED <<schedVars, replyVars, inflight, pluginVars>>

\* ---- engine calls that overlap ---------------------------------------------------
\* the set call of an updateControlCache under way, with the entry it was
\* handed, and the get call of the constructor's loadFromCache under way
SetCall(entry) == [op |-> "set", n |-> call.seq + 1, entry |-> entry]
GetCall == [op |-> "get", n |-> 0, entry |-> NoSnapshot]

\* a store whose set merges the threads of the entry into the row
Stored_Merged(row, entry) ==
    IF ~row.present THEN entry
    ELSE [entry EXCEPT !.controls =
             [k \in DOMAIN row.controls \cup DOMAIN entry.controls |->
                 IF k \in DOMAIN entry.controls THEN entry.controls[k]
                 ELSE row.controls[k]]]

\* cacheService.set: setDoc replaces the row
Stored(row, entry) == entry

\* updateControlCache up to its await: the dedup set trimmed, the entry built
\* from the map as it is now and handed to cacheService.set
IssueControlCache ==
    /\ processedItems' = Trimmed(processedItems)
    /\ inflight' = inflight \cup {SetCall(Serialize(controls', processedItems, clock))}

\* muteThread called while earlier store calls of the engine are under way
MuteThreadCalled(threadId, reason) ==
    /\ call.seq < MaxCalls
    /\ controls' = muteThread(controls, threadId, reason, clock)
    /\ IssueControlCache
    /\ muteCalls' = muteCalls \cup {threadId}
    /\ call' = Called("muteThread", threadId, NoTweet, 0, NoOutput, FALSE, FALSE, NoReason)
    /\ UNCHANGED <<cfg, snapshot, clock>>
    /\ UNCHANGED <<schedVars, replyVars, pluginVars>>

\* processInteraction called while earlier store calls are under way
ProcessInteractionCalled(threadId) ==
    /\ call.seq < MaxCalls
    /\ controls' = processInteraction(controls, threadId, clock)
    /\ IssueControlCache
    /\ call' = Called("processInteraction", threadId, NoTweet, 0, NoOutput, FALSE, FALSE,
                      NoReason)
    /\ UNCHANGED <<cfg, snapshot, clock, muteCalls>>
    /\ UNCHANGED <<schedVars, replyVars, pluginVars>>

\* cleanupControls called while earlier store calls are under way
CleanupControlsCalled ==
    /\ call.seq < MaxCalls
    /\ controls' = cleanupControls(controls, clock)
    /\ IF Expired(controls, clock) # {}
       THEN IssueControlCache
       ELSE UNCHANGED <<processedItems, inflight>>
    /\ call' = [Called("cleanupControls", "", NoTweet, 0, NoOutput, FALSE, FALSE, NoReason)
                   EXCEPT !.cleaned = Cardinality(Expired(controls, clock))]
    /\ UNCHANGED <<cfg, snapshot, clock, muteCalls>>
    /\ UNCHANGED <<schedVars, replyVars, pluginVars>>

\* a set call reaches the store; the calls under way reach it in any order (a
\* set that fails leaves the row as a call that never settles leaves it)
SetSettles(w) ==
    /\ w.op = "set"
    /\ inflight' = inflight \ {w}
    /\ snapshot' = Stored(snapshot, w.entry)
    /\ UNCHANGED <<cfg, controls, processedItems, clock, call, muteCalls>>
    /\ UNCHANGED <<schedVars, replyVars, pluginVars>>

\* the get call of loadFromCache resolves with the row of the store (ok) or
\* fails; a row replaces the map and the dedup set, no row or a failure leaves
\* them
LoadFromCacheSettles(w, ok) ==
    /\ w.op = "get"
    /\ inflight' = inflight \ {w}
    /\ controls' = IF ok /\ snapshot.present THEN LoadControls(snapshot) ELSE controls
    /\ processedItems' = IF ok /\ snapshot.present THEN snapshot.processedItems
                          ELSE processedItems
    /\ UNCHANGED <<cfg, snapshot, clock, call, muteCalls>>
    /\ UNCHANGED <<schedVars, replyVars, pluginVars>>

\* the process restarts: a new engine is constructed with the same plugin name
\* over the same store and its loadFromCache() settles; the read succeeds (ok)
\* or fails, and a failed read is caught and leaves the engine empty (threw
\* records the failed read)
Restart(ok) ==
    /\ call.seq < MaxCalls
    /\ controls' = IF ok /\ snapshot.present THEN LoadControls(snapshot) ELSE NoControls
    /\ processedItems' = IF ok /\ snapshot.present THEN snapshot.processedItems ELSE <<>>
    /\ muteCalls' = {}
    /\ call' = Called("loadFromCache", "", NoTweet, 0, NoOutput, ~ok, FALSE, NoReason)
    /\ UNCHANGED <<cfg, snapshot, clock>>
    /\ UNCHANGED <<schedVars, replyVars, inflight, pluginVars>>

\* the engine after its construction and hydration over a store row
EngInit ==
    /\ cfg \in Configs
    /\ snapshot \in StoredSnapshots
    /\ controls = IF snapshot.present THEN LoadControls(snapshot) ELSE NoControls
    /\ processedItems = snapshot.processedItems
    /\ clock = 1
    /\ call = NoCall
    /\ muteCalls = {}
    /\ inflight = {}

\* ---- actions -------------------------------------------------------------
Tick ==
    /\ now < MaxTime
    /\ now' = now + 1
    /\ UNCHANGED <<mode, jobs, isInitialized, listeners, heartbeatInterval,
                   passes, writes, cache>>
    /\ UNCHANGED <<lifetime, nextBeat, initializing, timers, otherVars>>

\* a variant of registerJob that starts the job's run history afresh
RegisterJob_ResetsHistory(job) ==
    /\ Len(jobs) < MaxJobs
    /\ jobs' = Append(jobs, job)
    /\ cache' = [cache EXCEPT ![job.id] = [NoRow EXCEPT !.config = job.schedule]]
    /\ UNCHANGED <<now, mode, isInitialized, listeners, heartbeatInterval,
                   passes, writes>>
    /\ UNCHANGED <<lifetime, nextBeat, initializing, timers, otherVars>>

\* registerJob(job): push, then the config row is written
RegisterJob(job) ==
    /\ Len(jobs) < MaxJobs
    /\ jobs' = Append(jobs, job)
    /\ cache' = [cache EXCEPT ![job.id].config = job.schedule]
    /\ UNCHANGED <<now, mode, isInitialized, listeners, heartbeatInterval,
                   passes, writes>>
    /\ UNCHANGED <<lifetime, nextBeat, initializing, timers, otherVars>>

\* startHeartbeat(): the timer of this.heartbeatInterval, if any, is cleared
\* and a new one is set
Restarted(n) == (IF heartbeatInterval THEN n - 1 ELSE n) + 1

\* stopHeartbeat(): the timer of this.heartbeatInterval, if any, is cleared
Stopped(n) == IF heartbeatInterval THEN n - 1 ELSE n

\* a variant of initialize() that starts the heartbeat whatever the mode
Initialize_AnyMode ==
    /\ ~isInitialized
    /\ listeners' = listeners + 1
    /\ isInitialized' = TRUE
    /\ Len(passes) + listeners + 1 <= MaxPasses
    /\ heartbeatInterval' = TRUE
    /\ timers' = Restarted(timers)
    /\ nextBeat' = now + 1
    /\ passes' = EmitHeartbeat(listeners + 1)
    /\ Runs(passes', 1) <= MaxRuns
    /\ UNCHANGED <<now, mode, jobs, writes, cache>>
    /\ UNCHANGED <<lifetime, initializing, otherVars>>

\* initialize(): registers the listeners; in single-node mode startHeartbeat()
\* sets the interval timer (config.heartbeatInterval is one tick of the clock)
\* and triggers the first heartbeat
Initialize ==
    /\ ~isInitialized
    /\ listeners' = listeners + 1
    /\ isInitialized' = TRUE
    /\ IF mode = "single-node"
       THEN /\ Len(passes) + listeners + 1 <= MaxPasses
            /\ heartbeatInterval' = TRUE
            /\ timers' = Restarted(timers)
            /\ nextBeat' = now + 1
            /\ passes' = EmitHeartbeat(listeners + 1)
            /\ Runs(passes', 1) <= MaxRuns
       ELSE UNCHANGED <<heartbeatInterval, timers, nextBeat, passes>>
    /\ UNCHANGED <<now, mode, jobs, writes, cache>>
    /\ UNCHANGED <<lifetime, initializing, otherVars>>

\* a variant of the guard of initialize() that also turns away a call made
\* while an earlier call is waiting in startHeartbeat()
InitializeReturnsEarly_WhileStarting == isInitialized \/ initializing > 0

\* if (this.isInitialized) return
InitializeReturnsEarly == isInitialized

\* initialize() is called and runs to its first await: the listeners are
\* registered; in single-node mode startHeartbeat() sets the timer and emits
\* the first heartbeat, and the call waits; in serverless mode nothing is
\* awaited and isInitialized is set
InitializeCalled ==
    /\ ~InitializeReturnsEarly
    /\ listeners' = listeners + 1
    /\ IF mode = "single-node"
       THEN /\ initializing < MaxInitializing
            /\ initializing' = initializing + 1
            /\ Len(passes) + listeners + 1 <= MaxPasses
            /\ heartbeatInterval' = TRUE
            /\ timers' = Restarted(timers)
            /\ nextBeat' = now + 1
            /\ passes' = EmitHeartbeat(listeners + 1)
            /\ Runs(passes', 1) <= MaxRuns
            /\ UNCHANGED isInitialized
       ELSE /\ isInitialized' = TRUE
            /\ UNCHANGED <<heartbeatInterval, timers, nextBeat, passes, initializing>>
    /\ UNCHANGED <<now, mode, jobs, writes, cache>>
    /\ UNCHANGED <<lifetime, otherVars>>

\* an initialize() call goes on after `await this.startHeartbeat()`
InitializeResumes ==
    /\ initializing > 0
    /\ initializing' = initializing - 1
    /\ isInitialized' = TRUE
    /\ UNCHANGED <<now, mode, jobs, listeners, heartbeatInterval, passes, writes, cache>>
    /\ UNCHANGED <<lifetime, nextBeat, timers, otherVars>>

\* shutdown(): the timer is cleared, every listener removed; handlers under
\* way and set calls in flight go on
Shutdown ==
    /\ isInitialized
    /\ heartbeatInterval' = FALSE
    /\ timers' = Stopped(timers)
    /\ nextBeat' = Null
    /\ listeners' = 0
    /\ isInitialized' = FALSE
    /\ UNCHANGED <<now, mode, jobs, passes, writes, cache>>
    /\ UNCHANGED <<lifetime, initializing, otherVars>>

\* triggerHeartbeat(), from the interval timer or from an outside caller
TriggerHeartbeat ==
    /\ listeners > 0
    /\ Len(passes) + listeners <= MaxPasses
    /\ passes' = EmitHeartbeat(listeners)
    /\ Runs(passes', 1) <= MaxRuns
    /\ UNCHANGED <<now, mode, jobs, isInitialized, listeners, heartbeatInterval,
                   writes, cache>>
    /\ UNCHANGED <<lifetime, nextBeat, initializing, timers, otherVars>>

\* the callback of the interval timer: triggerHeartbeat(), once per
\* config.heartbeatInterval
HeartbeatInterval ==
    /\ heartbeatInterval
    /\ nextBeat <= now
    /\ Len(passes) + listeners <= MaxPasses
    /\ passes' = EmitHeartbeat(listeners)
    /\ Runs(passes', 1) <= MaxRuns
    /\ nextBeat' = nextBeat + 1
    /\ UNCHANGED <<now, mode, jobs, isInitialized, listeners, heartbeatInterval,
                   writes, cache>>
    /\ UNCHANGED <<lifetime, initializing, timers, otherVars>>

\* GET /heartbeat of the API plugin, set up in serverless mode:
\* await triggerHeartbeat(), then processJobs(), whose results are the
\* response; the pass of the endpoint's own processJobs() is the last one
HeartbeatEndpoint ==
    /\ mode = "serverless"
    /\ Len(passes) + listeners + 1 <= MaxPasses
    /\ passes' = Append(EmitHeartbeat(listeners), NewPass)
    /\ Runs(passes', 1) <= MaxRuns
    /\ UNCHANGED <<now, mode, jobs, isInitialized, listeners, heartbeatInterval,
                   writes, cache>>
    /\ UNCHANGED <<lifetime, nextBeat, initializing, timers, otherVars>>

\* processJobs() called from outside
ProcessJobs ==
    /\ Len(passes) < MaxPasses
    /\ passes' = Append(passes, NewPass)
    /\ Runs(passes', 1) <= MaxRuns
    /\ UNCHANGED <<now, mode, jobs, isInitialized, listeners, heartbeatInterval,
                   writes, cache>>
    /\ UNCHANGED <<lifetime, nextBeat, initializing, timers, otherVars>>

\* the handler of job i in pass p settles; executeJob builds the JobResult
\* and emits the event
ExecuteJob(p, i, outcome) ==
    /\ passes[p].h[i] = "running"
    /\ LET job == passes[p].jobs[i]
           res == JobResultOf(job.id, outcome, now)
           settled == [passes[p] EXCEPT !.h[i] = outcome, !.res[i] = res]
       IN /\ passes' = [passes EXCEPT ![p] = FinishPass(settled, ExecuteJobRejects(outcome))]
          /\ writes' = writes \cup EmitJobEvent(res, now)
    /\ UNCHANGED <<now, mode, jobs, isInitialized, listeners, heartbeatInterval,
                   cache>>
    /\ UNCHANGED <<lifetime, nextBeat, initializing, timers, otherVars>>

\* a set call reaches the store
WriteLand(w) ==
    /\ writes' = writes \ {w}
    /\ cache' = [cache EXCEPT ![w.jobId] = ApplyWrite(cache[w.jobId], w)]
    /\ UNCHANGED <<now, mode, jobs, isInitialized, listeners, heartbeatInterval,
                   passes>>
    /\ UNCHANGED <<lifetime, nextBeat, initializing, timers, otherVars>>

\* the process dies and a new one starts: the job list, the listeners, the
\* timer, the passes under way and the set calls not yet sent are gone; the
\* store and the clock go on
Crash ==
    /\ lifetime <= MaxRestarts
    /\ lifetime' = lifetime + 1
    /\ jobs' = <<>>
    /\ isInitialized' = FALSE
    /\ listeners' = 0
    /\ heartbeatInterval' = FALSE
    /\ passes' = <<>>
    /\ writes' = {}
    /\ nextBeat' = Null
    /\ initializing' = 0
    /\ timers' = 0
    /\ UNCHANGED <<now, mode, cache>>
    /\ UNCHANGED otherVars

SchedInit ==
    /\ now = 0
    /\ mode \in Modes
    /\ jobs = <<>>
    /\ isInitialized = FALSE
    /\ listeners = 0
    /\ heartbeatInterval = FALSE
    /\ passes = <<>>
    /\ writes = {}
    /\ cache = [id \in JobIds \cup ActivityJobIds |-> NoRow]
    /\ lifetime = 1
    /\ nextBeat = Null
    /\ initializing = 0
    /\ timers = 0

(***************************************************************************)
(* Part 3: the reply automation (plugins/plugin-twitter/replies.ts,        *)
(* executeFindAndReply), as runs of the job handler that interleave at     *)
(* their await points over one engine.  A run searches one term.           *)
(***************************************************************************)
RunIds == 1..MaxHandlers

\* a Tweet as the search returns it
FoundTweet(id, conversationId, likes) ==
    [id |-> id, conversationId |-> conversationId, text |-> <<"h", "i">>,
     likes |-> likes, retweets |-> Null, replies |-> Null,
     bookmarkCount |-> Null, views |-> Null]

\* what client.searchTweets may resolve with
SearchResults ==
    { <<FoundTweet("a", "t", 3)>>,
      <<FoundTweet("a", "t", 3), FoundTweet("b", "t", 5)>>,
      <<FoundTweet("b", "", 0)>>,
      <<FoundTweet("b", "", 2)>> }

\* the filter of the search results: id, likes, not processed by the plugin,
\* likes >= config.minEngagementScore (0.6)
Relevant(tweet) ==
    /\ tweet.id # ""
    /\ OrZero(tweet.likes) # 0
    /\ ~Has(processedTweets, tweet.id)
    /\ 10 * tweet.likes >= 6

RECURSIVE Insert(_, _)
\* t placed before the first tweet with fewer likes
Insert(sorted, t) ==
    IF sorted = <<>> THEN <<t>>
    ELSE IF Head(sorted).likes < t.likes THEN <<t>> \o sorted
    ELSE <<Head(sorted)>> \o Insert(Tail(sorted), t)

RECURSIVE RelevantTweets(_, _)
\* tweets.filter(...).sort((a, b) => b.likes - a.likes), of the first n tweets
RelevantTweets(found, n) ==
    IF n = 0 THEN <<>>
    ELSE IF Relevant(found[n]) THEN Insert(RelevantTweets(found, n - 1), found[n])
    ELSE RelevantTweets(found, n - 1)

\* passed lists the gates that returned interact: true for the tweet of this
\* iteration, in the order they returned; rejected holds the ids of the tweets
\* of this run for which a gate returned interact: false
IdleRun ==
    [pc |-> "idle", tweets |-> <<>>, i |-> 0, out |-> NoOutput, repliesGenerated |-> 0,
     passed |-> <<>>, rejected |-> {}]

\* the run goes on to the next tweet of its list, or leaves the loop
NextTweet(run) ==
    IF run.i + 1 > Len(run.tweets) \/ run.repliesGenerated >= maxRepliesPerRun
    THEN [run EXCEPT !.i = @ + 1, !.pc = "cleanup", !.passed = <<>>]
    ELSE [run EXCEPT !.i = @ + 1, !.pc = "gate1", !.passed = <<>>]

\* if (!shouldInteract.interact) continue; else the run goes on to the AI
Checked(run, tweet, res) ==
    IF res.interact
    THEN [run EXCEPT !.pc = "llm", !.passed = Append(@, "shouldInteract")]
    ELSE NextTweet([run EXCEPT !.rejected = @ \cup {tweet.id}])

\* a loop that posts whatever the second gate returned
ControlChecked_PostsAnyway(run, tweet, res) ==
    IF res.interact
    THEN [run EXCEPT !.pc = "send", !.passed = Append(@, "shouldInteractWithAIOutput")]
    ELSE [run EXCEPT !.pc = "send", !.rejected = @ \cup {tweet.id}]

\* if (controlCheck.interact) the reply is sent, else the tweet is skipped
ControlChecked(run, tweet, res) ==
    IF res.interact
    THEN [run EXCEPT !.pc = "send", !.passed = Append(@, "shouldInteractWithAIOutput")]
    ELSE [run EXCEPT !.pc = "sleep", !.rejected = @ \cup {tweet.id}]

\* an awaited engine call that writes the snapshot: the write lands, or the
\* failure is thrown through executeFindAndReply
AfterWrite(run, ok) == IF ok THEN run ELSE [run EXCEPT !.pc = "failed"]

IsMuted(threadId) == controls[threadId].present /\ controls[threadId].isMuted

\* the handler is invoked and its search resolves
Search(r, found) ==
    /\ runs[r].pc = "idle"
    /\ LET relevant == RelevantTweets(found, Len(found))
       IN runs' = [runs EXCEPT ![r] =
                      [@ EXCEPT !.tweets = relevant, !.i = 1,
                                !.pc = IF relevant = <<>> THEN "cleanup" ELSE "gate1"]]
    /\ UNCHANGED <<posts, processedTweets>>
    /\ UNCHANGED <<schedVars, engVars, inflight, pluginVars>>

\* await interactionControl.shouldInteract(tweet)
FirstGate(r, draw, ok) ==
    /\ runs[r].pc = "gate1"
    /\ LET tweet == runs[r].tweets[runs[r].i]
           res == shouldInteract(tweet, draw)
       IN /\ IF res.muteReason # ""
             THEN /\ controls' = muteThread(controls, ThreadIdOf(tweet), res.muteReason, clock)
                  /\ UpdateControlCache(ok)
                  /\ muteCalls' = muteCalls \cup {ThreadIdOf(tweet)}
             ELSE /\ ok
                  /\ UNCHANGED <<controls, processedItems, snapshot, muteCalls>>
          /\ runs' = [runs EXCEPT ![r] =
                         AfterWrite(Checked(@, tweet, res), ok)]
    /\ UNCHANGED <<posts, processedTweets, cfg, clock, call>>
    /\ UNCHANGED <<schedVars, inflight, pluginVars>>

\* await agentService.handleMessage(...) resolves with the text of the AI
HandleMessage(r, out) ==
    /\ runs[r].pc = "llm"
    /\ runs' = [runs EXCEPT ![r] = [@ EXCEPT !.out = out, !.pc = "gate2"]]
    /\ UNCHANGED <<posts, processedTweets>>
    /\ UNCHANGED <<schedVars, engVars, inflight, pluginVars>>

\* await interactionControl.shouldInteractWithAIOutput(tweet, content)
SecondGate(r, draw, ok) ==
    /\ runs[r].pc = "gate2"
    /\ LET tweet == runs[r].tweets[runs[r].i]
           res == shouldInteractWithAIOutput(tweet, runs[r].out, draw)
       IN /\ IF res.muteReason # ""
             THEN /\ controls' = muteThread(controls, ThreadIdOf(tweet), res.muteReason, clock)
                  /\ UpdateControlCache(ok)
                  /\ muteCalls' = muteCalls \cup {ThreadIdOf(tweet)}
             ELSE /\ ok
                  /\ UNCHANGED <<controls, processedItems, snapshot, muteCalls>>
          /\ runs' = [runs EXCEPT ![r] =
                         AfterWrite(ControlChecked(@, tweet, res), ok /\ ~res.threw)]
          /\ processedTweets' = IF ok /\ ~res.threw /\ ~res.interact
                                THEN Add(processedTweets, tweet.id)
                                ELSE processedTweets
    /\ UNCHANGED <<posts, cfg, clock, call>>
    /\ UNCHANGED <<schedVars, inflight, pluginVars>>

\* client.sendTweet(content, tweet.id): after validateSession() the reply is
\* posted; posts records the run that posted, whether the thread was muted at
\* that moment and the gates the tweet had passed
SendTweet(r) ==
    /\ runs[r].pc = "send"
    /\ LET tweet == runs[r].tweets[runs[r].i]
       IN posts' = posts \cup { [run |-> r, id |-> tweet.id, threadId |-> ThreadIdOf(tweet),
                                 muted |-> IsMuted(ThreadIdOf(tweet)),
                                 passed |-> runs[r].passed] }
    /\ runs' = [runs EXCEPT ![r] = [@ EXCEPT !.pc = "sent"]]
    /\ UNCHANGED processedTweets
    /\ UNCHANGED <<schedVars, engVars, inflight, pluginVars>>

\* sendTweet has resolved: the counters, then processInteraction(conversationId)
AfterSend(r, ok) ==
    /\ runs[r].pc = "sent"
    /\ LET tweet == runs[r].tweets[runs[r].i]
       IN /\ processedTweets' = Add(processedTweets, tweet.id)
          /\ IF tweet.conversationId # ""
             THEN /\ controls' = processInteraction(controls, tweet.conversationId, clock)
                  /\ UpdateControlCache(ok)
             ELSE /\ ok
                  /\ UNCHANGED <<controls, processedItems, snapshot>>
          /\ runs' = [runs EXCEPT ![r] =
                         AfterWrite([@ EXCEPT !.repliesGenerated = @ + 1, !.pc = "sleep"], ok)]
    /\ UNCHANGED <<posts, cfg, clock, call, muteCalls>>
    /\ UNCHANGED <<schedVars, inflight, pluginVars>>

\* the 2000 ms pause is over
Sleep(r) ==
    /\ runs[r].pc = "sleep"
    /\ runs' = [runs EXCEPT ![r] = NextTweet(@)]
    /\ UNCHANGED <<posts, processedTweets>>
    /\ UNCHANGED <<schedVars, engVars, inflight, pluginVars>>

\* after the loop: processedTweets cut to its last 1000, cleanupControls()
Cleanup(r, ok) ==
    /\ runs[r].pc = "cleanup"
    /\ processedTweets' = Trimmed(processedTweets)
    /\ controls' = cleanupControls(controls, clock)
    /\ IF Expired(controls, clock) # {}
       THEN UpdateControlCache(ok)
       ELSE ok /\ UNCHANGED <<processedItems, snapshot>>
    /\ runs' = [runs EXCEPT ![r] = AfterWrite([@ EXCEPT !.pc = "done"], ok)]
    /\ UNCHANGED <<posts, cfg, clock, call, muteCalls>>
    /\ UNCHANGED <<schedVars, inflight, pluginVars>>

ReplyInit ==
    /\ runs = [r \in RunIds |-> IdleRun]
    /\ posts = {}
    /\ processedTweets = <<>>


(***************************************************************************)
(* Part 4: TwitterInteractions, the mention-polling revision               *)
(* (plugins/plugin-twitter/interactions.ts), as fetchMentions() runs that  *)
(* interleave at their await points over one plugin instance.  Date.now()  *)
(* is read from `clock`.                                                   *)
(***************************************************************************)
FetchIds == {1, 2}

\* process.env.PLUGIN_TWITTER_USERNAME
Self == "arok"

\* a mention: a Tweet and the name of its author
Mention(id, conversationId, text, retweets, username) ==
    [tweet |-> Tweet(id, conversationId, text, retweets), username |-> username]

\* what searchTweets returns: a reply in thread "t", a second one asking to
\* stop, a tweet that starts its own thread, a tweet without engagement, a
\* tweet of the agent itself
MentionLists ==
    { << Mention("a", "t", <<"h", "i">>, 60, "u") >>,
      << Mention("b", "t", <<"S", "t", "o", "p">>, 60, "u") >>,
      << Mention("a", "t", <<"h", "i">>, 60, "u"),
         Mention("b", "t", <<"h", "i">>, 60, "u") >>,
      << Mention("b", "", <<"h", "i">>, Null, "u"),
         Mention("a", "", <<"h", "i">>, 60, Self) >> }

\* what handleMessage returns
MUTE_THREAD == <<"M", "U", "T", "E", "_", "T", "H", "R", "E", "A", "D">>
NO_RESPONSE == <<"N", "O", "_", "R", "E", "S", "P", "O", "N", "S", "E">>
ReplyContents == { MUTE_THREAD, NO_RESPONSE, <<"o", "k">> }

\* mention.id > lastMentionId, for the one-letter ids of the model (strings
\* compare by code unit)
IdAfter(x, y) ==
    (CHOOSE k \in 1..Len(Lowercase) : Lowercase[k] = x)
        > (CHOOSE k \in 1..Len(Lowercase) : Lowercase[k] = y)

\* tweet.conversationId || tweet.id
MentionThread(tweet) == IF tweet.conversationId # "" THEN tweet.conversationId ELSE tweet.id

IdleFetch == [stage |-> "idle", mentions |-> <<>>, i |-> 1, count |-> 0, lastMentionId |-> ""]

NoPollCache == [controls |-> NoControls, lastMentionId |-> "", processed |-> <<>>]

\* the private muteThread of the plugin: the entry or {depth: 0,
\* lastInteraction: now}, muted with the reason, lastInteraction stamped
MentionMuted(ctl, threadId, reason, t) ==
    [ctl EXCEPT ![threadId] =
        [present |-> TRUE, isMuted |-> TRUE, muteReason |-> reason,
         depth |-> IF ctl[threadId].present THEN ctl[threadId].depth ELSE 0,
         lastInteraction |-> t]]

\* a variant of the entry processResponse writes that keeps isMuted and
\* muteReason of an existing entry
MentionReplied_KeepsMute(ctl, threadId, t) ==
    [ctl EXCEPT ![threadId] =
        [present |-> TRUE, isMuted |-> ctl[threadId].present /\ ctl[threadId].isMuted,
         muteReason |-> IF ctl[threadId].present THEN ctl[threadId].muteReason ELSE "",
         depth |-> (IF ctl[threadId].present THEN ctl[threadId].depth ELSE 0) + 1,
         lastInteraction |-> t]]

\* the entry processResponse writes after sendTweet: isMuted false, no
\* reason, depth one more than the entry's or 1
MentionReplied(ctl, threadId, t) ==
    [ctl EXCEPT ![threadId] =
        [present |-> TRUE, isMuted |-> FALSE, muteReason |-> "",
         depth |-> (IF ctl[threadId].present THEN ctl[threadId].depth ELSE 0) + 1,
         lastInteraction |-> t]]

\* shouldRespond of the plugin, draw = Math.random() in hundredths: the
\* verdict and the reason of the mute it issues ("" for none)
MentionVerdict(tweet, ctl, processed, draw) ==
    LET threadId == MentionThread(tweet)
        conf == MentionConfig
    IN IF threadId = "" THEN [respond |-> FALSE, mute |-> ""]
       ELSE IF Has(processed, tweet.id) THEN [respond |-> FALSE, mute |-> ""]
       ELSE IF ctl[threadId].present /\ ctl[threadId].isMuted
            THEN [respond |-> FALSE, mute |-> ""]
       ELSE IF ctl[threadId].present /\ ctl[threadId].depth > conf.maxThreadDepth
            THEN [respond |-> FALSE, mute |-> "Thread depth exceeded"]
       ELSE IF \E k \in 1..Len(conf.noResponseKeywords) :
                   includes(toLowerCase(tweet.text), conf.noResponseKeywords[k])
            THEN [respond |-> FALSE, mute |-> "No response keyword detected"]
       ELSE IF calculateEngagementScore(tweet) < conf.minEngagementScore
            THEN [respond |-> FALSE, mute |-> ""]
       ELSE IF draw < conf.skipProbability THEN [respond |-> FALSE, mute |-> ""]
       ELSE [respond |-> TRUE, mute |-> ""]

\* updateThreadControlCache: the whole map is written; a failure is logged
ThreadControlsWritten(ctl, ok) ==
    IF ok THEN [pollCache EXCEPT !.controls = ctl] ELSE pollCache

\* the entries cleanupThreadControls deletes
MentionExpired(ctl, t) ==
    { k \in ThreadIds : ctl[k].present
                        /\ t - ctl[k].lastInteraction > MentionConfig.threadTimeout }

\* fetchMentions() is called: searchTweets resolves with a list and
\* cache.get with the lastMentionId row
FetchMentions(r, list) ==
    /\ fetches[r].stage = "idle"
    /\ fetches' = [fetches EXCEPT ![r] =
                      [IdleFetch EXCEPT !.stage = "loop", !.mentions = list,
                                        !.lastMentionId = pollCache.lastMentionId]]
    /\ UNCHANGED <<threadControls, processedMentions, pollCache>>
    /\ UNCHANGED <<schedVars, engVars, replyVars, inflight, actVars>>

\* one turn of the loop up to `await handleMessage`; after the last mention
\* updateCache is awaited when a mention was answered, and the run returns
NextMention(r, draw, ok) ==
    /\ fetches[r].stage = "loop"
    /\ LET f == fetches[r]
       IN IF f.i > Len(f.mentions)
          THEN /\ fetches' = [fetches EXCEPT ![r].stage = "done"]
               /\ IF f.count > 0
                  THEN /\ processedMentions' = Trimmed(processedMentions)
                       /\ pollCache' =
                             IF ok
                             THEN [pollCache EXCEPT
                                      !.lastMentionId = f.lastMentionId,
                                      !.processed = Trimmed(processedMentions)]
                             ELSE pollCache
                  ELSE UNCHANGED <<processedMentions, pollCache>>
               /\ UNCHANGED threadControls
          ELSE LET m == f.mentions[f.i]
                   v == MentionVerdict(m.tweet, threadControls, processedMentions, draw)
               IN IF \/ m.tweet.id = ""
                     \/ Has(processedMentions, m.tweet.id)
                     \/ m.username = Self
                  THEN /\ fetches' = [fetches EXCEPT ![r].i = @ + 1]
                       /\ UNCHANGED <<threadControls, processedMentions, pollCache>>
                  ELSE IF ~v.respond
                  THEN /\ threadControls' =
                             IF v.mute # ""
                             THEN MentionMuted(threadControls, MentionThread(m.tweet),
                                               v.mute, clock)
                             ELSE threadControls
                       /\ pollCache' = IF v.mute # ""
                                       THEN ThreadControlsWritten(threadControls', ok)
                                       ELSE pollCache
                       /\ processedMentions' = Add(processedMentions, m.tweet.id)
                       /\ fetches' = [fetches EXCEPT ![r].i = @ + 1]
                  ELSE /\ fetches' = [fetches EXCEPT
                             ![r].stage = "handle",
                             ![r].count = @ + 1,
                             ![r].lastMentionId =
                                 IF @ = "" \/ IdAfter(m.tweet.id, @) THEN m.tweet.id ELSE @]
                       /\ UNCHANGED <<threadControls, processedMentions, pollCache>>
    /\ UNCHANGED <<schedVars, engVars, replyVars, inflight, actVars>>

\* handleMessage settles and processResponse runs up to `await sendTweet`: a
\* MUTE_THREAD reply mutes the thread, a NO_RESPONSE reply does nothing; a
\* throw ends the run in the catch block of fetchMentions
HandleMessageSettles(r, content, threw, ok) ==
    /\ fetches[r].stage = "handle"
    /\ LET f == fetches[r]
           m == f.mentions[f.i]
           threadId == MentionThread(m.tweet)
       IN IF threw
          THEN /\ fetches' = [fetches EXCEPT ![r].stage = "done"]
               /\ UNCHANGED <<threadControls, processedMentions, pollCache>>
          ELSE IF includes(content, MUTE_THREAD)
          THEN /\ threadControls' = MentionMuted(threadControls, threadId,
                                                 "Explicitly muted by agent", clock)
               /\ pollCache' = ThreadControlsWritten(threadControls', ok)
               /\ processedMentions' = Add(processedMentions, m.tweet.id)
               /\ fetches' = [fetches EXCEPT ![r].stage = "loop", ![r].i = @ + 1]
          ELSE IF includes(content, NO_RESPONSE)
          THEN /\ processedMentions' = Add(processedMentions, m.tweet.id)
               /\ fetches' = [fetches EXCEPT ![r].stage = "loop", ![r].i = @ + 1]
               /\ UNCHANGED <<threadControls, pollCache>>
          ELSE /\ fetches' = [fetches EXCEPT ![r].stage = "send"]
               /\ UNCHANGED <<threadControls, processedMentions, pollCache>>
    /\ UNCHANGED <<schedVars, engVars, replyVars, inflight, actVars>>

\* sendTweet settles and processResponse goes on to its end: the entry of the
\* thread is written, updateThreadControlCache awaited, and fetchMentions
\* marks the mention as processed
SendTweetSettles(r, threw, ok) ==
    /\ fetches[r].stage = "send"
    /\ LET f == fetches[r]
           m == f.mentions[f.i]
       IN IF threw
          THEN /\ fetches' = [fetches EXCEPT ![r].stage = "done"]
               /\ UNCHANGED <<threadControls, processedMentions, pollCache>>
          ELSE /\ threadControls' = MentionReplied(threadControls, MentionThread(m.tweet),
                                                   clock)
               /\ pollCache' = ThreadControlsWritten(threadControls', ok)
               /\ processedMentions' = Add(processedMentions, m.tweet.id)
               /\ fetches' = [fetches EXCEPT ![r].stage = "loop", ![r].i = @ + 1]
    /\ UNCHANGED <<schedVars, engVars, replyVars, inflight, actVars>>

\* the hourly job twitter:cleanup-threads
CleanupThreadControls(ok) ==
    /\ MentionExpired(threadControls, clock) # {}
    /\ threadControls' = [k \in ThreadIds |->
                             IF k \in MentionExpired(threadControls, clock)
                             THEN NoControl ELSE threadControls[k]]
    /\ pollCache' = ThreadControlsWritten(threadControls', ok)
    /\ UNCHANGED <<processedMentions, fetches>>
    /\ UNCHANGED <<schedVars, engVars, replyVars, inflight, actVars>>

(***************************************************************************)
(* Part 5: the ActivityPlugin (plugins/plugin-activity), whose activities  *)
(* are jobs of the scheduler.  An activity job carries the activity its    *)
(* handler closed over.                                                    *)
(***************************************************************************)
NoActivity ==
    [present |-> FALSE, id |-> "", scheduledTime |-> Null, recurrence |-> "",
     completed |-> FALSE]

\* an Activity: scheduledTime Null and recurrence "" when absent
Activity(id, scheduledTime, recurrence) ==
    [present |-> TRUE, id |-> id, scheduledTime |-> scheduledTime,
     recurrence |-> recurrence, completed |-> FALSE]

\* what ADD_ACTIVITY is given: no schedule, a one-time scheduledTime, a
\* recurrence, or both
NewActivities ==
    { Activity("x", t, c) : t \in {Null} \cup ScheduledTimes, c \in {"", "* * * * *"} }

\* a variant of registerActivityJob that replaces the job of the activity
RegisteredActivityJob_Replaces(js, activity) ==
    LET job == [id |-> "activity:" \o activity.id,
                schedule |-> IF activity.recurrence # "" THEN activity.recurrence
                             ELSE getOneTimeSchedule(activity.scheduledTime),
                activity |-> activity]
    IN IF \E k \in 1..Len(js) : js[k].id = job.id
       THEN [k \in 1..Len(js) |-> IF js[k].id = job.id THEN job ELSE js[k]]
       ELSE Append(js, job)

\* registerActivityJob: a job activity:<id> with the recurrence or the
\* one-time schedule, whose handler executes the activity handed in, is
\* pushed onto the scheduler's list
RegisteredActivityJob(js, activity) ==
    Append(js, [id |-> "activity:" \o activity.id,
                schedule |-> IF activity.recurrence # "" THEN activity.recurrence
                             ELSE getOneTimeSchedule(activity.scheduledTime),
                activity |-> activity])

\* if (activity.scheduledTime || activity.recurrence)
IsScheduled(activity) == activity.scheduledTime # Null \/ activity.recurrence # ""

\* addActivity and updateActivity: the activity is put into the map, the job
\* registered when the activity is scheduled, the map saved
PutActivity(activity) ==
    /\ activities' = [activities EXCEPT ![activity.id] = activity]
    /\ savedActivities' = activities'
    /\ IF IsScheduled(activity)
       THEN /\ Len(jobs) < MaxJobs
            /\ jobs' = RegisteredActivityJob(jobs, activity)
            /\ cache' = [cache EXCEPT !["activity:" \o activity.id].config =
                                         jobs'[Len(jobs')].schedule]
       ELSE UNCHANGED <<jobs, cache>>

\* executeActivity up to its return: handleMessage is asked to execute the
\* activity; an activity without recurrence is updated with the outcome
ExecutedActivity(activity, status, at, via) ==
    /\ executed' = executed \cup
                      {[id |-> activity.id, scheduledTime |-> activity.scheduledTime,
                        recurrence |-> activity.recurrence, at |-> at, via |-> via]}
    /\ IF activity.recurrence = ""
       THEN PutActivity([activity EXCEPT !.completed = (status = "completed")])
       ELSE UNCHANGED <<activities, savedActivities, jobs, cache>>

\* ADD_ACTIVITY
AddActivity(activity) ==
    /\ ~activities[activity.id].present
    /\ PutActivity(activity)
    /\ UNCHANGED <<now, mode, isInitialized, listeners, heartbeatInterval, passes, writes>>
    /\ UNCHANGED <<lifetime, nextBeat, initializing, timers, executed>>
    /\ UNCHANGED <<engVars, replyVars, inflight, pollVars>>

\* UPDATE_ACTIVITY: the activity with the updates laid over it
UpdateActivity(activityId, completed) ==
    /\ activities[activityId].present
    /\ PutActivity([activities[activityId] EXCEPT !.completed = completed])
    /\ UNCHANGED <<now, mode, isInitialized, listeners, heartbeatInterval, passes, writes>>
    /\ UNCHANGED <<lifetime, nextBeat, initializing, timers, executed>>
    /\ UNCHANGED <<engVars, replyVars, inflight, pollVars>>

\* REMOVE_ACTIVITY: the activity leaves the map; its job stays registered
RemoveActivity(activityId) ==
    /\ activities[activityId].present
    /\ activities' = [activities EXCEPT ![activityId] = NoActivity]
    /\ savedActivities' = activities'
    /\ UNCHANGED <<schedVars, executed>>
    /\ UNCHANGED <<engVars, replyVars, inflight, pollVars>>

\* the handler of the activity job i of pass p settles: executeActivity has
\* run on the activity the job closed over (handleMessage resolved with a
\* status, or threw), and executeJob builds the JobResult and emits the event
ExecuteActivityJob(p, i, outcome, status) ==
    /\ passes[p].h[i] = "running"
    /\ passes[p].jobs[i].id \in ActivityJobIds
    /\ LET job == passes[p].jobs[i]
           res == JobResultOf(job.id, outcome, now)
           settled == [passes[p] EXCEPT !.h[i] = outcome, !.res[i] = res]
       IN /\ IF outcome = "ok"
             THEN ExecutedActivity(job.activity, status, passes[p].currentTime, "job")
             ELSE /\ executed' = executed \cup
                        {[id |-> job.activity.id,
                          scheduledTime |-> job.activity.scheduledTime,
                          recurrence |-> job.activity.recurrence,
                          at |-> passes[p].currentTime, via |-> "job"]}
                  /\ UNCHANGED <<activities, savedActivities, jobs, cache>>
          /\ passes' = [passes EXCEPT ![p] = FinishPass(settled, ExecuteJobRejects(outcome))]
          /\ writes' = writes \cup EmitJobEvent(res, now)
    /\ UNCHANGED <<now, mode, isInitialized, listeners, heartbeatInterval>>
    /\ UNCHANGED <<lifetime, nextBeat, initializing, timers>>
    /\ UNCHANGED <<engVars, replyVars, inflight, pollVars>>

\* the activities checkScheduledActivities executes: not completed, with a
\* scheduledTime within the next 15 minutes
Upcoming(t) ==
    { k \in ActivityIds :
        /\ activities[k].present
        /\ ~activities[k].completed
        /\ activities[k].scheduledTime # Null
        /\ activities[k].scheduledTime - t >= 0
        /\ activities[k].scheduledTime - t <= 15 }

\* the handler of the job activities:check-scheduled runs on an upcoming
\* activity
CheckScheduledActivities(k, status) ==
    /\ k \in Upcoming(now)
    /\ ExecutedActivity(activities[k], status, now, "check")
    /\ UNCHANGED <<now, mode, isInitialized, listeners, heartbeatInterval, passes, writes>>
    /\ UNCHANGED <<lifetime, nextBeat, initializing, timers>>
    /\ UNCHANGED <<engVars, replyVars, inflight, pollVars>>

\* the plugins just initialized over an empty store
PluginIdle ==
    /\ threadControls = NoControls
    /\ processedMentions = <<>>
    /\ fetches = [r \in FetchIds |-> IdleFetch]
    /\ pollCache = NoPollCache
    /\ activities = [k \in ActivityIds |-> NoActivity]
    /\ savedActivities = activities
    /\ executed = {}

\* ---- the three specifications ---------------------------------------------------
\* the engine and the reply automation at rest
EngIdle ==
    /\ cfg = EngineConfig
    /\ snapshot = NoSnapshot
    /\ controls = NoControls
    /\ processedItems = <<>>
    /\ clock = 1
    /\ call = NoCall
    /\ muteCalls = {}
    /\ inflight = {}

\* the scheduler at rest
SchedIdle ==
    /\ now = 0
    /\ mode = "serverless"
    /\ jobs = <<>>
    /\ isInitialized = FALSE
    /\ listeners = 0
    /\ heartbeatInterval = FALSE
    /\ passes = <<>>
    /\ writes = {}
    /\ cache = [id \in JobIds \cup ActivityJobIds |-> NoRow]
    /\ lifetime = 1
    /\ nextBeat = Null
    /\ initializing = 0
    /\ timers = 0

Init == SchedInit /\ EngIdle /\ ReplyInit /\ PluginIdle

Next ==
    \/ Tick
    \/ \E d \in JobDefs : RegisterJob(d)
    \/ Initialize
    \/ TriggerHeartbeat
    \/ ProcessJobs
    \/ \E p \in 1..Len(passes) : \E i \in Idx(p) : \E o \in Outcomes : ExecuteJob(p, i, o)
    \/ \E w \in writes : WriteLand(w)

Spec == Init /\ [][Next]_vars

\* the scheduler of a serverless deployment across a restart of its process
InitRestart == SchedInit /\ mode = "serverless" /\ EngIdle /\ ReplyInit /\ PluginIdle

NextRestart ==
    \/ Tick
    \/ \E d \in JobDefs : RegisterJob(d)
    \/ Initialize
    \/ ProcessJobs
    \/ \E p \in 1..Len(passes) : \E i \in Idx(p) : ExecuteJob(p, i, "ok")
    \/ \E w \in writes : WriteLand(w)
    \/ Crash

SpecRestart == InitRestart /\ [][NextRestart]_vars

\* the scheduler through initialize() calls that may overlap, and shutdown()
NextLifecycle ==
    \/ Tick
    \/ \E d \in JobDefs : RegisterJob(d)
    \/ InitializeCalled
    \/ InitializeResumes
    \/ Shutdown
    \/ TriggerHeartbeat
    \/ ProcessJobs
    \/ \E p \in 1..Len(passes) : \E i \in Idx(p) : \E o \in Outcomes : ExecuteJob(p, i, o)
    \/ \E w \in writes : WriteLand(w)

SpecLifecycle == Init /\ [][NextLifecycle]_vars

\* the scheduler running the jobs of the ActivityPlugin
NextActivity ==
    \/ Tick
    \/ \E a \in NewActivities : AddActivity(a)
    \/ \E k \in ActivityIds : \E c \in BOOLEAN : UpdateActivity(k, c)
    \/ \E k \in ActivityIds : RemoveActivity(k)
    \/ Initialize
    \/ TriggerHeartbeat
    \/ \E p \in 1..Len(passes) : \E i \in Idx(p) :
          \E o \in {"ok", "throwError"} : \E st \in {"completed", "failed"} :
              ExecuteActivityJob(p, i, o, st)
    \/ \E k \in ActivityIds : \E st \in {"completed", "failed"} :
          CheckScheduledActivities(k, st)
    \/ \E w \in writes : WriteLand(w)

SpecActivity == Init /\ [][NextActivity]_vars

\* a serverless deployment whose heartbeats are the requests to GET /heartbeat
NextHeartbeat ==
    \/ Tick
    \/ \E d \in JobDefs : RegisterJob(d)
    \/ Initialize
    \/ HeartbeatEndpoint
    \/ \E p \in 1..Len(passes) : \E i \in Idx(p) : \E o \in Outcomes : ExecuteJob(p, i, o)
    \/ \E w \in writes : WriteLand(w)

SpecHeartbeat == InitRestart /\ [][NextHeartbeat]_vars

\* a serverless deployment that starts over a store in which an earlier process
\* lifetime left, for the jobs tick and poll, the rows of a successful run at
\* one of the times of StoredRuns (the clock starts at 0)
StoredRuns == {-4, -2}

StoredRow(d, t) ==
    [lastRun |-> toISOString(t), lastResult |-> JobResultOf(d.id, "ok", t),
     lastError |-> NoResult, config |-> d.schedule]

InitCatchUp ==
    /\ now = 0
    /\ mode = "serverless"
    /\ jobs = <<>>
    /\ isInitialized = FALSE
    /\ listeners = 0
    /\ heartbeatInterval = FALSE
    /\ passes = <<>>
    /\ writes = {}
    /\ \E f \in [{ d \in JobDefs : ValidCron(d.schedule) } -> StoredRuns] :
           cache = [id \in JobIds |->
                       IF \E d \in DOMAIN f : d.id = id
                       THEN LET d == CHOOSE d \in DOMAIN f : d.id = id
                            IN StoredRow(d, f[d])
                       ELSE NoRow]
    /\ lifetime = 1
    /\ nextBeat = Null
    /\ initializing = 0
    /\ timers = 0
    /\ EngIdle
    /\ ReplyInit
    /\ PluginIdle

NextCatchUp ==
    \/ Tick
    \/ \E d \in JobDefs : RegisterJob(d)
    \/ Initialize
    \/ ProcessJobs
    \/ \E p \in 1..Len(passes) : \E i \in Idx(p) : \E o \in Outcomes : ExecuteJob(p, i, o)
    \/ \E w \in writes : WriteLand(w)

SpecCatchUp == InitCatchUp /\ [][NextCatchUp]_vars

\* the scheduler with nothing calling triggerHeartbeat() or processJobs() from
\* outside; the interval timer calls back before the clock passes its time
TimerPending == heartbeatInterval /\ nextBeat <= now

NextTimer ==
    \/ (~TimerPending /\ Tick)
    \/ \E d \in JobDefs : RegisterJob(d)
    \/ Initialize
    \/ HeartbeatInterval
    \/ \E p \in 1..Len(passes) : \E i \in Idx(p) : \E o \in Outcomes : ExecuteJob(p, i, o)
    \/ \E w \in writes : WriteLand(w)

SpecTimer == Init /\ [][NextTimer]_vars

InitEngine == SchedIdle /\ EngInit /\ cfg = EngineConfig /\ ReplyInit /\ PluginIdle

NextEngine ==
    \/ Advance
    \/ \E k \in {"t", "a"} : \E ok \in BOOLEAN : MuteThread(k, "r", ok)
    \/ \E k \in {"t", "a"} : \E ok \in BOOLEAN : ProcessInteraction(k, ok)
    \/ MarkProcessed("a")
    \/ \E ok \in BOOLEAN : CleanupControls(ok)
    \/ \E tw \in ThreadTweets : \E ok \in BOOLEAN : ShouldInteract(tw, 50, ok)
    \/ \E tw \in ThreadTweets : \E o \in AiOutputs : \E ok \in BOOLEAN :
           ShouldInteractWithAIOutput(tw, o, 50, ok)
    \/ \E ok \in BOOLEAN : Restart(ok)

SpecEngine == InitEngine /\ [][NextEngine]_vars

\* the gate on every kind of candidate, after at most two other calls
NextGate ==
    \/ \E k \in {"t", "a"} : \E ok \in BOOLEAN : MuteThread(k, "r", ok)
    \/ \E k \in {"t", "a"} : \E ok \in BOOLEAN : ProcessInteraction(k, ok)
    \/ MarkProcessed("a")
    \/ \E tw \in EngineTweets : \E d \in Draws : \E ok \in BOOLEAN : ShouldInteract(tw, d, ok)

InitGate == SchedIdle /\ EngInit /\ ReplyInit /\ PluginIdle

SpecGate == InitGate /\ [][NextGate]_vars

\* detectControlResponse on every text of the model
NextDetect == \E o \in DetectOutputs : DetectControlResponse(o)

SpecDetect == InitGate /\ [][NextDetect]_vars

\* an engine just constructed, its loadFromCache() under way, whose callers do
\* not wait for one another
InitOverlap ==
    /\ SchedIdle
    /\ ReplyInit
    /\ PluginIdle
    /\ cfg = EngineConfig
    /\ snapshot \in StoredSnapshots
    /\ controls = NoControls
    /\ processedItems = <<>>
    /\ clock = 1
    /\ call = NoCall
    /\ muteCalls = {}
    /\ inflight = {GetCall}

NextOverlap ==
    \/ Advance
    \/ \E k \in {"t", "a"} : MuteThreadCalled(k, "r")
    \/ \E k \in {"t", "a"} : ProcessInteractionCalled(k)
    \/ CleanupControlsCalled
    \/ \E w \in inflight : SetSettles(w)
    \/ \E w \in inflight : \E ok \in BOOLEAN : LoadFromCacheSettles(w, ok)

SpecOverlap == InitOverlap /\ [][NextOverlap]_vars

\* the mention polling: the poll job and the FETCH_MENTIONS action may overlap
NextMentions ==
    \/ Advance
    \/ \E r \in FetchIds : \E list \in MentionLists : FetchMentions(r, list)
    \/ \E r \in FetchIds : \E draw \in {10, 50} : \E ok \in BOOLEAN : NextMention(r, draw, ok)
    \/ \E r \in FetchIds : \E content \in ReplyContents : \E threw, ok \in BOOLEAN :
          HandleMessageSettles(r, content, threw, ok)
    \/ \E r \in FetchIds : \E threw, ok \in BOOLEAN : SendTweetSettles(r, threw, ok)
    \/ \E ok \in BOOLEAN : CleanupThreadControls(ok)

SpecMentions == Init /\ [][NextMentions]_vars

\* the engagement score of every candidate of ScoreTweets, and the gate on the
\* example candidate
NextScore ==
    \/ \E tw \in ScoreTweets : CalculateEngagementScore(tw)
    \/ \E ok \in BOOLEAN : ShouldInteract(ExampleTweet, 50, ok)

SpecScore == InitGate /\ [][NextScore]_vars

\* the two gates on every kind of candidate and of text
NextOutput ==
    \/ \E k \in {"t", "a"} : \E ok \in BOOLEAN : MuteThread(k, "r", ok)
    \/ \E k \in {"t", "a"} : \E ok \in BOOLEAN : ProcessInteraction(k, ok)
    \/ MarkProcessed("a")
    \/ \E tw \in OutputTweets : \E o \in OutputKinds : \E d \in Draws : \E ok \in BOOLEAN :
           ShouldInteractWithAIOutput(tw, o, d, ok)

SpecOutput == InitGate /\ [][NextOutput]_vars

\* ---- the dedup set at its bound -----------------------------------------------
\* ids i1, i2, ... are the numbers 1, 2, ...
Ids(n) == [k \in 1..n |-> k]

\* how many ids markProcessed has added, one after the other, to a fresh engine
TrimStarts == {999, 1000, 1001, 1050}

InitTrim ==
    /\ SchedIdle
    /\ ReplyInit
    /\ PluginIdle
    /\ cfg = EngineConfig
    /\ snapshot = NoSnapshot
    /\ controls = NoControls
    /\ processedItems \in { Ids(n) : n \in TrimStarts }
    /\ clock = 1
    /\ call = NoCall
    /\ muteCalls = {}
    /\ inflight = {}

\* markProcessed of a new id and of the oldest one, and the calls that write
\* the snapshot
NextTrim ==
    \/ MarkProcessed(processedItems[Len(processedItems)] + 1)
    \/ MarkProcessed(processedItems[1])
    \/ \E ok \in BOOLEAN : MuteThread("t", "r", ok)
    \/ \E ok \in BOOLEAN : ProcessInteraction("t", ok)

SpecTrim == InitTrim /\ [][NextTrim]_vars

InitReply == SchedIdle /\ EngInit /\ cfg = EngineConfig /\ ReplyInit /\ PluginIdle

NextReply ==
    \/ Advance
    \/ \E r \in RunIds : \E found \in SearchResults : Search(r, found)
    \/ \E r \in RunIds : \E d \in Draws : \E ok \in BOOLEAN : FirstGate(r, d, ok)
    \/ \E r \in RunIds : \E o \in AiOutputs : HandleMessage(r, o)
    \/ \E r \in RunIds : \E d \in Draws : \E ok \in BOOLEAN : SecondGate(r, d, ok)
    \/ \E r \in RunIds : SendTweet(r)
    \/ \E r \in RunIds : \E ok \in BOOLEAN : AfterSend(r, ok)
    \/ \E r \in RunIds : Sleep(r)
    \/ \E r \in RunIds : \E ok \in BOOLEAN : Cleanup(r, ok)

SpecReply == InitReply /\ [][NextReply]_vars

\* ---- properties of the scheduler ------------------------------------------
\* the passes a step starts
Started == (Len(passes) + 1)..Len(passes')

C3_HandlerErrorIsolated ==
    \A p \in 1..Len(passes) :
        /\ passes[p].phase # "rejected"
        /\ \A i \in Idx(p) :
             /\ passes[p].due[i] => passes[p].h[i] \in Outcomes \cup {"running"}
             /\ passes[p].h[i] = "throwError" =>
                    /\ passes[p].res[i].status = "error"
                    /\ passes[p].res[i].error = ThrownMessage
                    /\ passes[p].res[i].jobId = passes[p].jobs[i].id
             /\ passes[p].h[i] = "throwOther" =>
                    /\ passes[p].res[i].status = "error"
                    /\ passes[p].res[i].error = "Unknown error"
                    /\ passes[p].res[i].jobId = passes[p].jobs[i].id
             /\ passes[p].h[i] = "ok" =>
                    /\ passes[p].res[i].status = "success"
                    /\ passes[p].res[i].jobId = passes[p].jobs[i].id
        /\ (\A i \in Idx(p) : passes[p].h[i] # "running") =>
               /\ passes[p].phase = "returned"
               /\ Len(Results(passes[p])) = CountDue(passes[p], 1)
               /\ \A i \in Idx(p) : passes[p].due[i] =>
                      \E n \in 1..Len(Results(passes[p])) :
                          Results(passes[p])[n] = passes[p].res[i]

\* C3 (case reached): a pass returned two results, the first of a handler that
\* threw and the second of a sibling that succeeded after it.
C3_Witness ==
    \E p \in 1..Len(passes) :
        /\ passes[p].phase = "returned"
        /\ Len(Results(passes[p])) = 2
        /\ Results(passes[p])[1].status = "error"
        /\ Results(passes[p])[1].error = ThrownMessage
        /\ Results(passes[p])[2].status = "success"
        /\ ParseDate(Results(passes[p])[2].timestamp) > ParseDate(Results(passes[p])[1].timestamp)

\* C4 (as stated): a never-run job on the sparse schedule, executed with
\* success by a heartbeat at T0, has lastRun = T0 persisted, and the heartbeat
\* one interval later (T0 + 1 tick) does not execute it again.
C4_SecondHeartbeatSkips ==
    \A p, q \in 1..Len(passes) : \A i \in Idx(p) : \A j \in Idx(q) :
        ( /\ p < q
          /\ passes[p].jobs[i] = passes[q].jobs[j]
          /\ passes[p].jobs[i].schedule = "*/2 * * * *"
          /\ passes[p].lastRun[i] = <<"iso", Null>>
          /\ passes[p].h[i] = "ok"
          /\ passes[q].currentTime = passes[p].currentTime + 1 )
        => /\ passes[q].lastRun[j] = toISOString(passes[p].currentTime)
           /\ ~passes[q].due[j]

C6_LastRunMonotonic ==
    [][\A id \in JobIds :
         cache[id].lastRun # <<"iso", Null>> =>
             /\ cache'[id].lastRun # <<"iso", Null>>
             /\ ParseDate(cache'[id].lastRun) >= ParseDate(cache[id].lastRun)]_vars

\* ---- properties of the engine ---------------------------------------------------
\* C7 (as stated): once muteThread(t, r) has been called, every later
\* shouldInteract of a candidate whose thread id is t returns interact:false,
\* whatever engine operations were called in between.
C7_MutedThreadStaysRejected ==
    (call.op = "shouldInteract" /\ ~call.threw /\ call.threadId \in muteCalls)
        => ~call.interact

\* C8 (as stated): no reply is posted to a candidate whose thread is muted in
\* the engine at the moment of posting, however the runs of the job handler
\* interleave.
C8_NoPostToMutedThread == \A p \in posts : ~p.muted

\* the step is a shouldInteract call
IsShouldInteractStep == call'.seq = call.seq + 1 /\ call'.op = "shouldInteract"

\* C9: shouldInteract decides by the first check that fails, in the order no
\* thread id, already processed, thread muted, depth exceeded, no-response
\* keyword, low engagement, random skip; only the depth and keyword checks
\* mute, each with its own reason, and a candidate that fails none is accepted.
C9_FirstFailingCheckDecides ==
    [][IsShouldInteractStep =>
        LET tw == call'.tweet
            th == ThreadIdOf(tw)
            noThread == th = ""
            processed == Has(processedItems, tw.id)
            muted == controls[th].present /\ controls[th].isMuted
            deep == controls[th].present /\ controls[th].depth > 5
            keyword == tw.text = <<"S", "p", "a", "m">>
            low == cfg = MentionConfig /\ tw.retweets = Null
            skip == cfg = MentionConfig /\ call'.draw = 10
            returned(interact, reason) ==
                ~call'.threw => (call'.interact = interact /\ call'.reason = reason)
            mutedWith(reason) ==
                /\ controls'[th].present /\ controls'[th].isMuted
                /\ controls'[th].muteReason = reason
        IN IF noThread
           THEN returned(FALSE, <<"No thread ID available">>) /\ controls' = controls
           ELSE IF processed
           THEN returned(FALSE, <<"Already processed">>) /\ controls' = controls
           ELSE IF muted
           THEN /\ returned(FALSE, <<"Thread muted: ", controls[th].muteReason>>)
                /\ controls' = controls
           ELSE IF deep
           THEN returned(FALSE, <<"Thread too deep">>) /\ mutedWith("Thread depth exceeded")
           ELSE IF keyword
           THEN /\ returned(FALSE, <<"No response keyword detected">>)
                /\ mutedWith("No response keyword detected")
           ELSE IF low
           THEN returned(FALSE, <<"Low engagement score">>) /\ controls' = controls
           ELSE IF skip
           THEN returned(FALSE, <<"Random skip">>) /\ controls' = controls
           ELSE returned(TRUE, <<>>) /\ controls' = controls]_vars

\* C9 (case reached): a candidate with a keyword in its text, on a thread deeper
\* than maxThreadDepth, was rejected as too deep and its thread muted with the
\* depth reason.
C9_Witness ==
    /\ call.op = "shouldInteract"
    /\ call.tweet.text = <<"S", "p", "a", "m">>
    /\ call.reason = <<"Thread too deep">>
    /\ controls[call.threadId].depth > 5
    /\ controls[call.threadId].isMuted
    /\ controls[call.threadId].muteReason = "Thread depth exceeded"

\* C10: a shouldInteract call changes the control map, the dedup set or the
\* persisted snapshot only when it rejects for depth or for a keyword, and then
\* the only change is the mute of the candidate's thread (and its write); on
\* every other outcome the three are left as they were.
C10_OnlyDepthAndKeywordMute ==
    [][IsShouldInteractStep =>
        LET th == call'.threadId
            quiet == ~call'.threw /\
                     ( call'.interact
                       \/ call'.reason \in { <<"No thread ID available">>, <<"Already processed">>,
                                             <<"Low engagement score">>, <<"Random skip">> }
                       \/ (call'.reason # <<>> /\ Head(call'.reason) = "Thread muted: ") )
        IN IF quiet
           THEN controls' = controls /\ processedItems' = processedItems /\ snapshot' = snapshot
           ELSE /\ call'.threw \/ call'.reason \in { <<"Thread too deep">>,
                                                   <<"No response keyword detected">> }
                /\ ~(controls[th].present /\ controls[th].isMuted)
                /\ controls'[th].present /\ controls'[th].isMuted
                /\ controls'[th].depth = controls[th].depth
                /\ \A k \in ThreadIds \ {th} : controls'[k] = controls[k]
                /\ processedItems' = processedItems
                /\ snapshot' = IF call'.threw THEN snapshot
                               ELSE Serialize(controls', processedItems, clock)]_vars

\* C10 (case reached): a candidate was rejected for low engagement and its
\* thread has no entry in the control map, nor has the store a snapshot.
C10_Witness ==
    /\ call.op = "shouldInteract"
    /\ call.reason = <<"Low engagement score">>
    /\ ~controls[call.threadId].present
    /\ ~snapshot.present

\* C11: shouldInteract accepts a candidate only if the recorded depth of its
\* thread is at most maxThreadDepth; a call on an unprocessed candidate of an
\* unmuted thread deeper than maxThreadDepth leaves the thread muted with the
\* reason "Thread depth exceeded" and does not accept the candidate.
C11_DepthBoundsAcceptance ==
    [][IsShouldInteractStep =>
        LET tw == call'.tweet
            th == ThreadIdOf(tw)
        IN /\ (call'.interact /\ th # "" /\ controls[th].present)
                 => controls[th].depth <= cfg.maxThreadDepth
           /\ ( /\ th # ""
                /\ ~Has(processedItems, tw.id)
                /\ controls[th].present
                /\ ~controls[th].isMuted
                /\ controls[th].depth > cfg.maxThreadDepth )
                 => /\ ~call'.interact
                    /\ controls'[th].isMuted
                    /\ controls'[th].muteReason = "Thread depth exceeded"
                    /\ controls'[th].depth = controls[th].depth]_vars

\* C11 (case reached): a candidate of a thread at depth maxThreadDepth + 1 was
\* rejected by a call that returned, and the thread is muted for its depth.
C11_Witness ==
    /\ call.op = "shouldInteract"
    /\ ~call.threw
    /\ ~call.interact
    /\ call.threadId = "t"
    /\ controls["t"].depth = cfg.maxThreadDepth + 1
    /\ controls["t"].isMuted
    /\ controls["t"].muteReason = "Thread depth exceeded"

\* C12 (as stated): after shouldInteractWithAIOutput(candidate, "MUTE_THREAD")
\* on a candidate with a thread id (its conversationId, or its id when it has
\* no conversationId), that thread is muted with the detected reason and the
\* candidate is not accepted.
C12_MuteThreadOutputMutes ==
    ( /\ call.op = "shouldInteractWithAIOutput"
      /\ call.aiOutput = MuteOutput
      /\ ThreadIdOf(call.tweet) # "" )
        => /\ ~call.interact
           /\ controls[ThreadIdOf(call.tweet)].present
           /\ controls[ThreadIdOf(call.tweet)].isMuted
           /\ controls[ThreadIdOf(call.tweet)].muteReason = "Explicit MUTE_THREAD command"

\* ---- properties of the gate on the text of the AI ---------------------------------
\* the step is a shouldInteractWithAIOutput call
IsOutputGateStep == call'.seq = call.seq + 1 /\ call'.op = "shouldInteractWithAIOutput"

\* C13: when detectControlResponse(text).shouldPost is false,
\* shouldInteractWithAIOutput does not accept, returns the detected reason, and
\* none of the base checks acts (the only change it can make is the mute asked
\* for by MUTE_THREAD); when shouldPost is true, what it returns and what it
\* changes are what shouldInteract(candidate) returns and changes in that state.
C13_OutputGateDelegates ==
    [][IsOutputGateStep =>
        LET tw == call'.tweet
            th == ThreadIdOf(tw)
            d == detection[cfg][call'.aiOutput]
            base == shouldInteract(tw, call'.draw)
        IN IF d.threw THEN call'.threw
           ELSE IF ~d.shouldPost
           THEN /\ ~call'.interact
                /\ ~call'.threw => call'.reason = d.reason
                /\ processedItems' = processedItems
                /\ \A k \in ThreadIds :
                       controls'[k] # controls[k] =>
                           /\ d.controlType = "MUTE_THREAD"
                           /\ k = tw.conversationId
                           /\ controls'[k].muteReason = "Explicit MUTE_THREAD command"
                /\ d.controlType # "MUTE_THREAD" => (snapshot' = snapshot /\ ~call'.threw)
           ELSE /\ controls' = IF base.muteReason # ""
                               THEN muteThread(controls, th, base.muteReason, clock)
                               ELSE controls
                /\ processedItems' = processedItems
                /\ IF call'.threw
                   THEN base.muteReason # "" /\ snapshot' = snapshot
                   ELSE /\ call'.interact = base.interact
                        /\ call'.reason = base.reason
                        /\ snapshot' = IF base.muteReason # ""
                                       THEN Serialize(controls', processedItems, clock)
                                       ELSE snapshot]_vars

\* C13 (case reached): the text NO_RESPONSE for a candidate with a keyword in
\* its text, on a thread deeper than maxThreadDepth: the call returned the
\* detected reason and the thread is not muted.
C13_Witness ==
    /\ call.op = "shouldInteractWithAIOutput"
    /\ ~call.threw
    /\ call.reason = <<"Explicit NO_RESPONSE command">>
    /\ call.tweet.text = <<"S", "p", "a", "m">>
    /\ call.threadId = "t"
    /\ controls["t"].depth > cfg.maxThreadDepth
    /\ ~controls["t"].isMuted

\* C14 (as stated): detectControlResponse returns, for every text, by the first
\* rule that applies: empty text -> "Empty output"; a JSON object without
\* content -> "JSON response missing content field"; a JSON object with content
\* -> the rules below on the content; trimmed text exactly NO_RESPONSE ->
\* control NO_RESPONSE; exactly MUTE_THREAD -> control MUTE_THREAD; a configured
\* keyword contained whatever the case -> control NO_RESPONSE naming the first
\* such keyword of the list; otherwise shouldPost true.
C14_DetectionPrecedence ==
    call.op = "detectControlResponse" =>
        LET o == call.aiOutput
            d == call.detection
            isObject == o.json \in {"object", "objectOther"}
            hasContent == o.json = "objectOther" \/ o.content # <<>>
            text == IF o.json = "object" THEN o.content ELSE o.raw
            kws == cfg.noResponseKeywords
            Spaces(n) == [k \in 1..n |-> " "]
            Exactly(w) == \E i \in 0..2 : \E j \in 0..2 : text = Spaces(i) \o w \o Spaces(j)
            Matches(k) == includes(toLowerCase(text), toLowerCase(kws[k]))
        IN /\ ~call.threw
           /\ IF o.raw = <<>>
              THEN d = Detection(FALSE, "", <<"Empty output">>)
              ELSE IF isObject /\ ~hasContent
              THEN d = Detection(FALSE, "", <<"JSON response missing content field">>)
              ELSE IF Exactly(<<"N", "O", "_", "R", "E", "S", "P", "O", "N", "S", "E">>)
              THEN ~d.shouldPost /\ d.controlType = "NO_RESPONSE"
                   /\ d.reason = <<"Explicit NO_RESPONSE command">>
              ELSE IF Exactly(<<"M", "U", "T", "E", "_", "T", "H", "R", "E", "A", "D">>)
              THEN ~d.shouldPost /\ d.controlType = "MUTE_THREAD"
                   /\ d.reason = <<"Explicit MUTE_THREAD command">>
              ELSE IF \E k \in 1..Len(kws) : Matches(k)
              THEN /\ ~d.shouldPost /\ d.controlType = "NO_RESPONSE"
                   /\ \E k \in 1..Len(kws) :
                          /\ Matches(k)
                          /\ \A m \in 1..(k - 1) : ~Matches(m)
                          /\ d.reason = <<"Contains no-response keyword: ">> \o kws[k]
              ELSE d = Detection(TRUE, "", <<>>)

\* ---- properties of the dedup set ----------------------------------------------
\* the step is a call that writes the snapshot through updateControlCache
IsWriteThroughStep ==
    call'.seq = call.seq + 1 /\ call'.op \in {"muteThread", "processInteraction"}

\* C15: after every write-through the dedup set holds at most 1000 ids, namely
\* the last ones inserted, in their order; the snapshot a successful write leaves
\* holds the same ids, and no snapshot ever holds more than 1000; from the ids
\* 1..1050 inserted in this order the trim leaves exactly 51..1050.
C15_TrimKeepsLatestThousand ==
    [][IsWriteThroughStep =>
        LET n == Len(processedItems)
            dropped == IF n > 1000 THEN n - 1000 ELSE 0
        IN /\ Len(processedItems') <= 1000
           /\ Len(processedItems') = n - dropped
           /\ \A k \in 1..(n - dropped) : processedItems'[k] = processedItems[k + dropped]
           /\ ~call'.threw => snapshot'.processedItems = processedItems'
           /\ Len(snapshot'.processedItems) <= 1000
           /\ processedItems = Ids(1050)
                 => { processedItems'[k] : k \in 1..Len(processedItems') } = 51..1050]_vars

\* C15 (case reached): the ids 1..1050 had been inserted, a muteThread wrote the
\* snapshot, and memory and snapshot both hold 51..1050.
C15_Witness ==
    /\ call.op = "muteThread"
    /\ ~call.threw
    /\ Len(processedItems) = 1000
    /\ processedItems[1] = 51
    /\ processedItems[1000] = 1050
    /\ snapshot.present
    /\ snapshot.processedItems = processedItems

\* ---- properties of cleanupControls ----------------------------------------------
\* C16: cleanupControls() deletes exactly the entries whose lastInteraction lies
\* more than threadTimeout before now (an entry exactly threadTimeout old
\* stays), leaves every other entry as it was, returns the number of deleted
\* entries as `cleaned`, and writes to the store only when it deleted one.
C16_CleanupRemovesExactlyExpired ==
    [][(call'.seq = call.seq + 1 /\ call'.op = "cleanupControls") =>
        LET old == { k \in ThreadIds :
                        controls[k].present
                        /\ clock - controls[k].lastInteraction > cfg.threadTimeout }
        IN /\ \A k \in old : ~controls'[k].present
           /\ \A k \in ThreadIds \ old : controls'[k] = controls[k]
           /\ ~call'.threw => call'.cleaned = Cardinality(old)
           /\ old = {} => (snapshot' = snapshot /\ ~call'.threw)
           /\ (old # {} /\ ~call'.threw)
                 => snapshot' = Serialize(controls', processedItems, clock)]_vars

\* C16 (case reached): cleanupControls() returned cleaned = 1 having deleted
\* thread t, while thread a, exactly threadTimeout old and muted, is still there.
C16_Witness ==
    /\ call.op = "cleanupControls"
    /\ ~call.threw
    /\ call.cleaned = 1
    /\ ~controls["t"].present
    /\ controls["a"].present
    /\ controls["a"].isMuted
    /\ clock - controls["a"].lastInteraction = cfg.threadTimeout

\* ---- properties of persistence ----------------------------------------------------
\* the step is a restart whose hydration read the stored snapshot
IsHydration ==
    call'.seq = call.seq + 1 /\ call'.op = "loadFromCache" /\ ~call'.threw /\ snapshot.present

\* C17: the engine a restart leaves, once hydrated, holds for every thread the
\* isMuted, muteReason and depth of the persisted snapshot and its dedup set; when
\* the restart follows a completed muteThread or processInteraction these are the
\* ones the old engine held; and every candidate of a thread muted in the
\* snapshot is rejected by shouldInteract after the restart.
C17_RestartRoundTrip ==
    [][IsHydration =>
        /\ \A k \in ThreadIds :
              /\ controls'[k].present <=> k \in DOMAIN snapshot.controls
              /\ k \in DOMAIN snapshot.controls =>
                    /\ controls'[k].isMuted = snapshot.controls[k].isMuted
                    /\ controls'[k].muteReason = snapshot.controls[k].muteReason
                    /\ controls'[k].depth = snapshot.controls[k].depth
        /\ processedItems' = snapshot.processedItems
        /\ (call.op \in {"muteThread", "processInteraction"} /\ ~call.threw) =>
              /\ \A k \in ThreadIds :
                    /\ controls'[k].present = controls[k].present
                    /\ controls'[k].isMuted = controls[k].isMuted
                    /\ controls'[k].muteReason = controls[k].muteReason
                    /\ controls'[k].depth = controls[k].depth
              /\ processedItems' = processedItems
        /\ \A tw \in ThreadTweets : \A d \in Draws :
              ( /\ controls[ThreadIdOf(tw)].isMuted
                /\ ThreadIdOf(tw) \in DOMAIN snapshot.controls
                /\ snapshot.controls[ThreadIdOf(tw)].isMuted )
                  => ~(shouldInteract(tw, d).interact)']_vars

\* C17 (case reached): thread t was muted by a completed muteThread, the process
\* restarted and hydrated, and the new engine, whose muteThread was never
\* called, holds t muted with the same reason and depth.
C17_Witness ==
    /\ call.op = "loadFromCache"
    /\ ~call.threw
    /\ muteCalls = {}
    /\ controls["t"].isMuted
    /\ controls["t"].muteReason = "r"
    /\ controls["t"].depth = 5
    /\ snapshot.present
    /\ snapshot.controls["t"].isMuted

\* ---- properties of the scheduler across a restart -----------------------------
\* C18: registering a job leaves the run history the store holds for its id as
\* it is, and a pass of a later process lifetime decides on a job with a
\* persisted lastRun = L as any pass does: the job is no first run, and its
\* handler is invoked iff its schedule has a trigger time in (L, now].
C18_RestartKeepsRunHistory ==
    [][/\ Len(jobs') = Len(jobs) + 1 =>
            \A id \in JobIds :
                /\ cache'[id].lastRun = cache[id].lastRun
                /\ cache'[id].lastResult = cache[id].lastResult
                /\ cache'[id].lastError = cache[id].lastError
       /\ lifetime' = lifetime + 1 => cache' = cache
       /\ lifetime > 1 =>
            \A k \in Started : \A i \in 1..Len(jobs) :
                LET L == cache[jobs[i].id].lastRun
                IN L # <<"iso", Null>> =>
                     /\ passes'[k].lastRun[i] = L
                     /\ passes'[k].due[i] <=>
                          \E t \in (ParseDate(L) + 1)..now : IsTrigger(jobs[i].schedule, t)
                     /\ passes'[k].h[i] = IF passes'[k].due[i] THEN "running" ELSE "skipped"]_vars

\* C18 (case reached): in the second process lifetime, in which no handler has
\* run and no write has been issued, job poll was registered again and a pass
\* at time 1 skipped it because of the lastRun = 0 the first lifetime persisted.
C18_Witness ==
    /\ lifetime = 2
    /\ writes = {}
    /\ \A p \in 1..Len(passes) : \A i \in Idx(p) : passes[p].h[i] = "skipped"
    /\ \E p \in 1..Len(passes) : \E i \in Idx(p) :
          /\ passes[p].jobs[i].id = "poll"
          /\ passes[p].currentTime = 1
          /\ passes[p].lastRun[i] = toISOString(0)
          /\ passes[p].h[i] = "skipped"

\* C19 (as stated): a failed store write during muteThread, processInteraction
\* or cleanupControls, or during the mute inside a gate call, is not thrown to
\* the caller: every such call returns.
C19_WriteFailureNotEscalated ==
    call.op \in {"muteThread", "processInteraction", "cleanupControls", "shouldInteract",
                 "shouldInteractWithAIOutput"}
        => ~call.threw

\* ---- properties of the reply automation ---------------------------------------
\* C20 (as stated): within one process lifetime a candidate id gets at most one
\* reply, also when two runs of the reply job overlap.
C20_OneReplyPerCandidate ==
    \A p \in posts : \A q \in posts : p.id = q.id => p.run = q.run

\* C21: within one run of the reply job, every reply was posted for a
\* candidate for which shouldInteract and then shouldInteractWithAIOutput had
\* both returned interact: true, in that order, and no reply of the run is
\* for a candidate that one of its gates rejected.
C21_PostOnlyAfterBothGates ==
    \A p \in posts :
        /\ p.passed = <<"shouldInteract", "shouldInteractWithAIOutput">>
        /\ p.id \notin runs[p.run].rejected

\* C21 witness: a run has had one candidate rejected by a gate and has posted
\* a reply for another candidate, which had passed both gates.
C21_Witness ==
    \E p \in posts :
        /\ runs[p.run].rejected # {}
        /\ p.passed = <<"shouldInteract", "shouldInteractWithAIOutput">>

\* ---- heartbeats ---------------------------------------------------------------
\* C22 (as stated): a request to the serverless heartbeat endpoint that arrives
\* while no pass is in progress invokes the handler of each job that is due
\* exactly once.
C22_EndpointRunsDueJobsOnce ==
    [][ ( /\ Started # {}
          /\ \A p \in 1..Len(passes) : passes[p].phase # "running" )
        => \A i \in 1..Len(jobs) :
               passes'[Len(passes')].due[i]
               => Cardinality({ k \in Started : passes'[k].due[i] }) = 1 ]_vars

\* C23 (as stated): in single-node mode with the interval timer as the only
\* source of heartbeats, no pass starts the handler of a job id while an
\* earlier invocation of that id's handler has not settled.
C23_NoReentryUnderTimer ==
    [][ mode = "single-node"
        => \A k \in Started : \A j \in 1..Len(passes'[k].jobs) :
               passes'[k].due[j]
               => ~\E p \in 1..Len(passes) : \E i \in Idx(p) :
                      /\ passes[p].jobs[i].id = passes'[k].jobs[j].id
                      /\ passes[p].h[i] = "running" ]_vars

\* C24: with nothing outside calling triggerHeartbeat() or processJobs(), a
\* serverless scheduler sets no timer and starts no pass, so it invokes no
\* handler; a single-node scheduler sets its timer in initialize(), which
\* starts one pass at once, and from then on one pass starts per
\* heartbeatInterval (one tick), the timer's callback for the current tick
\* being the only one that can still be outstanding.
C24_TimerOnlyInSingleNode ==
    /\ mode = "serverless" => ~heartbeatInterval /\ nextBeat = Null /\ passes = <<>>
    /\ mode = "single-node" =>
           /\ heartbeatInterval = isInitialized
           /\ ~isInitialized => passes = <<>>
           /\ isInitialized =>
                  /\ Len(passes) >= 1
                  /\ \A k \in 1..Len(passes) :
                         passes[k].currentTime = passes[1].currentTime + k - 1
                  /\ Len(passes) \in { now - passes[1].currentTime,
                                       now - passes[1].currentTime + 1 }

\* C24 witness: a single-node scheduler has started the pass of initialize()
\* and, one interval later, the pass of the timer's first callback.
C24_Witness ==
    /\ mode = "single-node"
    /\ Len(passes) = 2
    /\ passes[2].currentTime = passes[1].currentTime + 1
    /\ nextBeat = now + 1

\* ---- the engagement score -----------------------------------------------------
\* the step is a calculateEngagementScore call
IsScoreStep == call'.seq = call.seq + 1 /\ call'.op = "calculateEngagementScore"

\* C25: calculateEngagementScore changes nothing in the engine; of two
\* consecutive calls, candidates that agree on the five counters (absent read
\* as 0) get the same score, and a candidate with one counter higher and the
\* other four equal gets a strictly higher score; the score of likes 200,
\* retweets 50, replies 10, bookmarkCount 0, views 10000 is 1.59 (1590000
\* millionths), which is not below a minEngagementScore of 0.6, so
\* shouldInteract does not reject that candidate for low engagement.
C25_ScoreStrictlyMonotone ==
    [][ /\ IsScoreStep =>
             /\ UNCHANGED <<controls, processedItems, snapshot>>
             /\ call'.tweet = ExampleTweet =>
                    /\ call'.score = 1590000
                    /\ ~(call'.score < MentionConfig.minEngagementScore)
             /\ call.op = "calculateEngagementScore" =>
                    LET a == Metrics(call.tweet)
                        b == Metrics(call'.tweet)
                    IN /\ a = b => call'.score = call.score
                       /\ (\E k \in 1..5 : /\ b[k] > a[k]
                                            /\ \A j \in 1..5 \ {k} : b[j] = a[j])
                          => call'.score > call.score
        /\ ( /\ IsShouldInteractStep
             /\ cfg = MentionConfig
             /\ call'.tweet = ExampleTweet
             /\ ~call'.threw )
           => call'.reason # Reason("Low engagement score") ]_vars

\* C25 witness: the score of the example candidate has been computed as 1.59,
\* as the second or a later call of the engine.
C25_Witness ==
    /\ call.op = "calculateEngagementScore"
    /\ call.seq >= 2
    /\ call.tweet = ExampleTweet
    /\ call.score = 1590000

\* ---- the writers of the control map -------------------------------------------
\* the step is a muteThread call, a processInteraction call
IsMuteThreadStep == call'.seq = call.seq + 1 /\ call'.op = "muteThread"
IsProcessInteractionStep == call'.seq = call.seq + 1 /\ call'.op = "processInteraction"

\* C26: muteThread(t, r) leaves t's entry present with isMuted = true and
\* muteReason = r ("r" is the reason of every direct call here), with depth 0
\* when there was no entry and with the entry's depth when there was one, and
\* leaves the entry of every other thread as it was; a second call right after
\* a first on the same thread leaves isMuted, muteReason and depth as the first
\* left them (lastInteraction is the time of the later call).
C26_MuteThreadIdempotentUpsert ==
    [][ IsMuteThreadStep =>
          LET t == call'.threadId
          IN /\ controls'[t].present
             /\ controls'[t].isMuted
             /\ controls'[t].muteReason = "r"
             /\ controls'[t].depth = IF controls[t].present THEN controls[t].depth ELSE 0
             /\ controls'[t].lastInteraction = clock
             /\ \A k \in ThreadIds \ {t} : controls'[k] = controls[k]
             /\ (call.op = "muteThread" /\ call.threadId = t)
                => [controls'[t] EXCEPT !.lastInteraction = 0]
                     = [controls[t] EXCEPT !.lastInteraction = 0] ]_vars

\* C26 witness: muteThread has just been called on a thread that had been
\* replied to, while another thread has an entry last touched at an earlier
\* time.
C26_Witness ==
    /\ call.op = "muteThread"
    /\ controls[call.threadId].isMuted
    /\ controls[call.threadId].depth > 0
    /\ \E k \in ThreadIds \ {call.threadId} :
           controls[k].present /\ controls[k].lastInteraction < clock

\* C27: processInteraction(t) leaves t's entry present with a depth one above
\* what it was (1 when there was no entry), with isMuted and muteReason as they
\* were, and the other threads' entries as they were; and within the life of
\* one engine object the depth of a thread goes up in no step other than a
\* processInteraction of that thread (the hydration of a newly constructed
\* engine restores the depths of the stored snapshot).
C27_OnlyProcessInteractionDeepens ==
    [][ /\ IsProcessInteractionStep =>
             LET t == call'.threadId
             IN /\ controls'[t].present
                /\ controls'[t].depth
                     = (IF controls[t].present THEN controls[t].depth ELSE 0) + 1
                /\ controls'[t].isMuted = controls[t].isMuted
                /\ controls'[t].muteReason = controls[t].muteReason
                /\ \A k \in ThreadIds \ {t} : controls'[k] = controls[k]
        /\ \A k \in ThreadIds :
               controls'[k].depth > controls[k].depth
               => \/ IsProcessInteractionStep /\ call'.threadId = k
                  \/ IsHydration ]_vars

\* C27 witness: processInteraction has just been called on a muted thread that
\* had been replied to before.
C27_Witness ==
    /\ call.op = "processInteraction"
    /\ controls[call.threadId].isMuted
    /\ controls[call.threadId].muteReason = "r"
    /\ controls[call.threadId].depth >= 2

\* C28 (as stated): once sendTweet has resolved, the run's next step is a
\* processInteraction on the candidate's thread id (conversationId, or id when
\* there is no conversationId): the depth shouldInteract reads for that thread
\* is one higher after the step.
C28_PostDeepensThread ==
    [][ \A r \in RunIds :
            (runs[r].pc = "sent" /\ runs'[r].pc # "sent")
            => LET threadId == ThreadIdOf(runs[r].tweets[runs[r].i])
               IN controls'[threadId].depth = controls[threadId].depth + 1 ]_vars

\* ---- registration and catch-up ------------------------------------------------
\* C29: registerJob appends to the job list whatever ids it holds, so a job
\* registered twice has two entries; a pass decides alike on entries of one id,
\* so when the id is due the handlers of both entries are invoked, and the
\* pass returns one JobResult per entry, each carrying that jobId.
C29_DuplicateRegistrationRunsTwice ==
    [][ /\ jobs' # jobs => \E d \in JobDefs : jobs' = Append(jobs, d)
        /\ \A k \in Started : \A i, j \in 1..Len(jobs) :
               jobs[i].id = jobs[j].id
               => /\ passes'[k].due[i] = passes'[k].due[j]
                  /\ passes'[k].due[i] => passes'[k].h[i] = "running" /\ passes'[k].h[j] = "running"
        /\ \A p \in 1..Len(passes') :
               passes'[p].phase = "returned"
               => /\ Len(Results(passes'[p])) = CountDue(passes'[p], 1)
                  /\ \A id \in JobIds :
                         Cardinality({ n \in 1..Len(Results(passes'[p])) :
                                          Results(passes'[p])[n].jobId = id })
                           = Cardinality({ i \in 1..Len(passes'[p].jobs) :
                                              /\ passes'[p].jobs[i].id = id
                                              /\ passes'[p].due[i] }) ]_vars

\* C29 witness: a job was registered twice, a pass found it due, invoked the
\* handlers of both entries and returned two JobResults with its id.
C29_Witness ==
    \E p \in 1..Len(passes) :
        /\ Len(passes[p].jobs) = 2
        /\ passes[p].jobs[1].id = passes[p].jobs[2].id
        /\ passes[p].h[1] \in Outcomes
        /\ passes[p].h[2] \in Outcomes
        /\ passes[p].phase = "returned"
        /\ Len(Results(passes[p])) = 2
        /\ Results(passes[p])[1].jobId = passes[p].jobs[1].id
        /\ Results(passes[p])[2].jobId = passes[p].jobs[1].id

\* entry i of pass p read a lastRun that lies two or more slots of its
\* schedule before the time of the pass
MissedSlots(p, i) ==
    LET s == passes[p].jobs[i].schedule
        L == passes[p].lastRun[i]
    IN /\ L # <<"iso", Null>>
       /\ ValidCron(s)
       /\ CronNext(s, CronNext(s, ParseDate(L))) <= passes[p].currentTime

\* C30 (as stated): a pass that finds a job's persisted lastRun two or more
\* slots in the past invokes its handler, once; and once that handler has
\* succeeded at time T, no pass that starts before the first slot after T finds
\* the job due.
C30_CatchUpRunsOnce ==
    [][ \A k \in Started : \A j \in 1..Len(jobs) :
            /\ MissedSlots(k, j)' => passes'[k].h[j] = "running"
            /\ \A p \in 1..Len(passes) : \A i \in Idx(p) :
                   ( /\ passes[p].jobs[i] = jobs[j]
                     /\ MissedSlots(p, i)
                     /\ passes[p].h[i] = "ok"
                     /\ now < CronNext(jobs[j].schedule,
                                       ParseDate(passes[p].res[i].timestamp)) )
                   => ~passes'[k].due[j] ]_vars

\* ---- concurrency of a pass ---------------------------------------------------
\* C31: the step in which a pass starts its handlers starts the handler of every
\* due job of the pass, and a handler settles whatever the state of the other
\* handlers of its pass: each step that settles one leaves the others as they
\* were, running or settled.
C31_DueHandlersStartTogether ==
    [][ /\ \A k \in Started : \A i \in 1..Len(passes'[k].jobs) :
               passes'[k].h[i] = IF passes'[k].due[i] THEN "running" ELSE "skipped"
        /\ \A p \in 1..Len(passes) : \A i \in Idx(p) :
               /\ passes[p].due[i] => passes[p].h[i] \in Outcomes \cup {"running"}
               /\ passes'[p].h[i] # passes[p].h[i]
                  => /\ passes[p].h[i] = "running"
                     /\ passes'[p].h[i] \in Outcomes
                     /\ \A j \in Idx(p) \ {i} : passes'[p].h[j] = passes[p].h[j] ]_vars

\* C31 witness: in a pass with two due jobs the handler of the second has
\* settled while the handler of the first is still running.
C31_Witness ==
    \E p \in 1..Len(passes) :
        /\ Len(passes[p].jobs) = 2
        /\ passes[p].due[1]
        /\ passes[p].due[2]
        /\ passes[p].h[1] = "running"
        /\ passes[p].h[2] \in Outcomes
        /\ passes[p].res[2].jobId = passes[p].jobs[2].id

\* ---- engine calls that overlap --------------------------------------------------
\* C32: a set call that reaches the store replaces the persisted snapshot with
\* the entry it was handed, whatever the store held and whichever call was
\* issued first, and leaves the map in memory alone; so when two overlapping
\* mutations' writes land out of order the snapshot is the earlier entry.
C32_LastWriterWins ==
    [][ \A w \in inflight :
            (w.op = "set" /\ inflight' = inflight \ {w})
            => /\ controls' = controls
               /\ snapshot' = w.entry ]_vars

\* C32 witness: two mutations have been called, on two threads; the map holds
\* both threads, every store call has settled, and the persisted snapshot lacks
\* one of the two threads.
C32_Witness ==
    /\ call.seq = 2
    /\ inflight = {}
    /\ controls["t"].present
    /\ controls["a"].present
    /\ snapshot.present
    /\ \E k \in {"t", "a"} : k \notin DOMAIN snapshot.controls
    /\ \E k \in {"t", "a"} : k \in DOMAIN snapshot.controls

\* ---- the mention polling ----------------------------------------------------------
\* C33: a thread entry of the mention-polling plugin that is muted stays muted
\* for as long as the entry exists: no step of fetchMentions, processResponse
\* or the cleanup takes isMuted of an existing entry from true to false.
C33_MutedStaysMuted ==
    [][ \A k \in ThreadIds :
            (threadControls[k].present /\ threadControls[k].isMuted
                /\ threadControls'[k].present)
            => threadControls'[k].isMuted ]_vars

C35_HydrationKeepsLaterMutes ==
    [][ \A w \in inflight :
            (w.op = "get" /\ inflight' = inflight \ {w})
            => \A k \in ThreadIds :
                   (controls[k].present /\ controls[k].isMuted)
                   => (controls'[k].present /\ controls'[k].isMuted) ]_vars

\* ---- the life cycle of the scheduler ------------------------------------------
\* C36: whenever a handler started by processJobs() resolves, a write of the
\* job's lastRun and lastResult is handed to the store, whether the pass was
\* started before initialize(), after it, or after shutdown().
C36_SuccessIsPersisted ==
    [][ \A p \in 1..Len(passes) : \A i \in Idx(p) :
            (/\ Len(passes') = Len(passes)
             /\ passes[p].h[i] = "running"
             /\ passes'[p].h[i] = "ok")
            => \E w \in writes' : /\ w.key = "complete"
                                  /\ w.jobId = passes[p].jobs[i].id
                                  /\ w.res = passes'[p].res[i] ]_vars

\* C37: once initialize() has been called, however often and whether or not
\* the calls overlap, one heartbeat listener is registered, no step starts more
\* than one processJobs() pass, and at most one interval timer is set.
C37_InitializeIdempotent ==
    [][ (isInitialized \/ initializing > 0)
        => /\ Len(passes') <= Len(passes) + 1
           /\ timers' <= 1
           /\ isInitialized' => listeners' = 1 ]_vars

\* ---- detection never throws -----------------------------------------------------
\* C38: detectControlResponse returns a DetectionResult for every text it is
\* given, a JSON object whose content is a truthy value that is no string
\* included: no call of it throws.
C38_DetectionNeverThrows ==
    call.op = "detectControlResponse" => ~call.threw /\ ~call.detection.threw

\* ---- the jobs of the ActivityPlugin ----------------------------------------------
\* C39: the scheduler's job list holds at most one job per activity, and no
\* processJobs() pass starts the handler of one activity's job more than once.
C39_OneJobPerActivity ==
    /\ \A i, j \in 1..Len(jobs) :
          (jobs[i].id \in ActivityJobIds /\ jobs[i].id = jobs[j].id) => i = j
    /\ \A p \in 1..Len(passes) : \A i, j \in Idx(p) :
          (/\ passes[p].jobs[i].id \in ActivityJobIds
           /\ passes[p].jobs[i].id = passes[p].jobs[j].id
           /\ passes[p].due[i]
           /\ passes[p].due[j]) => i = j

\* C40: no processJobs() pass whose currentTime is before S starts the handler
\* of the job of an activity with the one-time scheduledTime S and no
\* recurrence, and no executeActivity() call on such an activity is made
\* before S.
C40_NotBeforeScheduledTime ==
    /\ \A p \in 1..Len(passes) : \A i \in Idx(p) :
          (/\ passes[p].jobs[i].id \in ActivityJobIds
           /\ passes[p].jobs[i].activity.recurrence = ""
           /\ passes[p].due[i])
          => passes[p].currentTime >= passes[p].jobs[i].activity.scheduledTime
    /\ \A e \in executed :
          (e.recurrence = "" /\ e.scheduledTime # Null) => e.at >= e.scheduledTime
====
